---- MODULE Spec2Model ----
(***************************************************************************)
(* Model of the nextcloud-bot core: the CouchDB-backed entity store with   *)
(* its optimistic-concurrency save and LRU cache (lib/nextcloud/models/    *)
(* base.py), the page save / cascade delete against the document store and *)
(* the vector index (models/collective_page.py), the decision extractor    *)
(* (models/protocol.py, models/decision.py), the role scanners of Group    *)
(* and Protocol (models/group.py, models/protocol.py) and the batch loop   *)
(* (collectives_parser.py).                                                *)
(*                                                                         *)
(* Each part has its own specification over the shared variables; the      *)
(* variables a specification does not use stay at their parked values.     *)
(***************************************************************************)
EXTENDS Integers, Sequences, FiniteSets, TLC

\* ------------------------------------------------------------------------
\* Bounds of the model
\* ------------------------------------------------------------------------

\* number of live Python entity objects of the entity-store specification
NumObjs == 3
\* revisions the environment and new save calls may still consume
MaxRev == 3
\* Decision documents a page may have in the page specification
NumDecisions == 1
\* chunks the text splitter may cut a page's content into
MaxChunks == 2
\* success blocks of a page in the decision specification
MaxBlocks == 2
\* pages a batch may hold
NumBatchPages == 3
\* lines of a page in the scanner specification
MaxLines == 3
\* runs of update_from_page on one page
MaxRuns == 2
\* writes and deletes the store of the cache specification accepts
MaxCacheWrites == 3
\* edits of the configuration page
MaxCfgVersion == 2
\* calls of get and of delete each of the two threads makes
MaxThreadCalls == 2
\* the last day a run of the deck reminder begins on
MaxDeckDay == 5

\* ------------------------------------------------------------------------
\* Program constants
\* ------------------------------------------------------------------------

\* CouchDBModel._cache_max_size default
CacheMaxDefault == 500
\* "limit" of the _find query of CollectivePage.delete
DeleteFindLimit == 10000
\* characters of the title Decision.build_id puts into the id
DecisionIdChars == 20
\* default "limit" of get_all
GetAllLimit == 100
\* limit of the query of Protocol.delete
ProtocolDeleteLimit == 1000
\* organisation.protocol_decision_example_title, the sentinel of template blocks
ExampleTitle == <<"E">>

\* ------------------------------------------------------------------------
\* State
\* ------------------------------------------------------------------------

VARIABLES
    \* --- entity store (base.py) ---
    store,      \* CouchDB: doc id -> [present, rev (_rev), bodyRev (body field "rev")]
    inst,       \* live entity objects: handle -> [id, rev]
    cache,      \* CouchDBModel._instance_cache: handles, least recently used first
    cacheMax,   \* CouchDBModel._cache_max_size
    pc,         \* position of the running save call
    cur,        \* handle of the object being saved
    docRev,     \* doc["_rev"] of the running save (0: key absent)
    docBody,    \* doc["rev"] as dumped by model_dump (0: None)
    nWrites,    \* db.save calls made by the running / last save
    nFetches,   \* db.get calls made by the running / last save
    conflict1,  \* the first db.save of the call raised Conflict
    conflict2,  \* the second db.save of the call raised Conflict
    fetched,    \* _rev returned by the re-fetch (0: none)
    outcome,    \* how the last save ended
    \* --- page save and cascade delete (collective_page.py) ---
    docs,       \* documents in CouchDB: page documents and entities with a page_id
    chunks,     \* entries of the unified vector collection: id and metadata
    pop,        \* the running page call: "save" or "delete"
    ppc,        \* position of the running CollectivePage.save / delete call
    pcur,       \* ocs.id of the page the call works on
    found,      \* related documents the _find query of delete returned
    attempted,  \* related documents delete has called db.delete for
    failedSub,  \* a related db.delete or the vector delete of this call failed
    chunkTried, \* delete has reached the vector-chunk deletion
    pageStored, \* the page document was in the store when the call began
    saveN,      \* number of chunks of the content being saved
    saveG,      \* build_id of the group resolved for the page being saved, or ""
    saveI,      \* index of the next chunk to upsert
    presult,    \* how the last page call ended: "ok" or "raised"
    raisedAt,   \* the step whose error left the last page call
    \* --- decision extraction (protocol.py, decision.py) ---
    decs,       \* Decision documents in CouchDB
    dcontent,   \* page.content of the protocol's page during the call
    dtitleOK,   \* Protocol.valid_date(page.title) of that page
    ddate,      \* the protocol's date, relative to today
    dvia,       \* who called extract_decisions: "direct" or "update"
    dpc,        \* position of the running call
    dtodo,      \* decisions get_all returned that are not deleted yet
    dblocks,    \* success blocks not handled yet
    dsaved,     \* decisions the call has saved, in order (the list it returns)
    dbefore,    \* the stored decisions when the call began
    dresult,    \* how extract_decisions ended: "returned" or "raised"
    protSaved,  \* update_from_page has saved the protocol
    dgroup,     \* the protocol's group_id after the group resolution ("": None)
    ddays,      \* days_old: days from the protocol's date to today
    dmins,      \* minutes since the page was last modified
    dnotified,  \* calls of notify_updated the running update has made
    \* --- batch loops (collectives_parser.py, runner.py) ---
    bop,        \* the running batch: "parse_pages" or "process_pages"
    bphase,     \* the loop the batch is in: "parse", "save", "groups", "protocols"
    bqueue,     \* the pages of the batch, in order
    bidx,       \* index of the next page of the running loop
    bdone,      \* [page, step] pairs: the steps that were completed for a page
    bfailed,    \* pages a parser reported as failed without raising
    bpc,        \* position of the batch: "idle", "loop" or "done"
    bresult,    \* how the batch ended: "returned" or "raised"
    braisedAt,  \* index of the page whose step raised (0: none)
    \* --- role scanners (group.py, protocol.py update_from_page) ---
    skind,      \* the entity of the page: "group" or "protocol" ("none": no page)
    spage,      \* the page: its lines, the group names of its path, a dated title
    ent,        \* the fields of the Group or Protocol object
    sattr,      \* attr: the active role ("": none)
    si,         \* index of the next line of the loop
    sstopped,   \* the loop was left by break
    spc,        \* position of the running update_from_page
    sruns,      \* runs of update_from_page completed on the page
    sonce,      \* the fields after the first run on the page
    sresult,    \* how the last run ended: "saved" or "raised"
    amCache,    \* all_members in the object's __dict__ (cached_property)
    amRead,     \* what a read of all_members in the last step returned
    \* --- entity cache (base.py get, save, delete, cache methods) ---
    kstore,     \* CouchDB: doc id -> [present, rev (_rev), bodyRev (body field "rev")]
    kobj,       \* entity objects: handle -> [id, rev, cls]
    kcache,     \* CouchDBModel._instance_cache: handles, least recently used first
    kmax,       \* CouchDBModel._cache_max_size
    kcall,      \* the last call: what it was given, what it did and returned
    kuse,       \* the ids of the cached entries, the one used longest ago first
    \* --- group lookup by name (group.py get_by_name) ---
    ldocs,      \* the Group documents of the store, last updated first
    lcached,    \* Group._cached_groups: not loaded (None) or the loaded list
    lcall,      \* the last call of get_by_name: its argument and its outcome
    \* --- lazy configuration (config.py LazyBotConfig) ---
    cversion,  \* the configuration the configuration page holds (its version)
    ccached,   \* LazyBotConfig._cached: 0 (None) or the configuration it holds
    cretries,  \* LazyBotConfig._retries
    cpc,       \* position of the running call: "idle" or "loading" (in reload)
    cattempts,  \* BotConfig.load_config calls the running reload has made
    clast,     \* last_exc: 0 (None) or the attempt whose error it is
    ccall,     \* the last call: what it found, did and returned
    \* --- two threads on the entity cache (base.py get, delete) ---
    tstore,    \* the ids of the documents in the store
    tcache,    \* the ids _instance_cache has an entry for
    tgpc,      \* the thread in get: "idle", "lookup", "read" or "add"
    tgid,      \* the id get was called with
    tdpc,      \* the thread in delete: "idle", "delete" or "invalidate"
    tdid,      \* the id of the entity delete was called on
    tcalls,    \* the calls each thread has begun
    \* --- vector collections of a page (collectives_parser.py, decision.py) ---
    vrel,      \* the stored Protocol and Decision documents: [type, page, k]
    vuni,      \* the chunks of the unified collection: [page, i]
    vdec,      \* the entries of the decisions collection: [page, k]
    vpro,      \* the entries of the protocols collection: page ids
    vcall,     \* the last call: its name and the page it worked on
    \* --- deck reminders (deck_reminder.py) ---
    rday,      \* time.time() in days
    rstored,   \* the "cards" of the stored deck_reminder_cards document: card -> day
    rmem,      \* cards_processed of the running call
    rpc,       \* position of remind_card_due_dates: "idle" or "cards"
    ri,        \* the due cards the running call has gone through
    rnow,      \* now_time of the running call
    rsent,     \* the reminders sent so far: [card, day]
    rres       \* how the last call ended: "saved" or "raised"

storeVars == <<store, inst, cache, cacheMax, pc, cur, docRev, docBody,
               nWrites, nFetches, conflict1, conflict2, fetched, outcome>>

pageVars == <<docs, chunks, pop, ppc, pcur, found, attempted, failedSub, chunkTried,
              pageStored, saveN, saveG, saveI, presult, raisedAt>>

decVars == <<decs, dcontent, dtitleOK, ddate, dvia, dpc, dtodo, dblocks, dsaved,
             dbefore, dresult, protSaved, dgroup, ddays, dmins, dnotified>>
updVars == <<dgroup, ddays, dmins, dnotified>>

batchVars == <<bop, bphase, bqueue, bidx, bdone, bfailed, bpc, bresult, braisedAt>>

scanVars == <<skind, spage, ent, sattr, si, sstopped, spc, sruns, sonce, sresult,
              amCache, amRead>>

cacheVars == <<kstore, kobj, kcache, kmax, kcall, kuse>>

lookupVars == <<ldocs, lcached, lcall>>

cfgVars == <<cversion, ccached, cretries, cpc, cattempts, clast, ccall>>

thrVars == <<tstore, tcache, tgpc, tgid, tdpc, tdid, tcalls>>

vecVars == <<vrel, vuni, vdec, vpro, vcall>>

deckVars == <<rday, rstored, rmem, rpc, ri, rnow, rsent, rres>>

vars == <<storeVars, pageVars, decVars, batchVars, scanVars, cacheVars, lookupVars, cfgVars, thrVars, vecVars, deckVars>>

\* what the actions of one part leave alone
notStore == <<pageVars, decVars, batchVars, scanVars, cacheVars, lookupVars, cfgVars, thrVars, vecVars, deckVars>>
notPage == <<storeVars, decVars, batchVars, scanVars, cacheVars, lookupVars, cfgVars, thrVars, vecVars, deckVars>>
notDec == <<storeVars, pageVars, batchVars, scanVars, cacheVars, lookupVars, cfgVars, thrVars, vecVars, deckVars>>
notBatch == <<storeVars, pageVars, decVars, scanVars, cacheVars, lookupVars, cfgVars, thrVars, vecVars, deckVars>>
notScan == <<storeVars, pageVars, decVars, batchVars, cacheVars, lookupVars, cfgVars, thrVars, vecVars, deckVars>>
notCache == <<storeVars, pageVars, decVars, batchVars, scanVars, lookupVars, cfgVars, thrVars, vecVars, deckVars>>
notLookup == <<storeVars, pageVars, decVars, batchVars, scanVars, cacheVars, cfgVars, thrVars, vecVars, deckVars>>
notCfg == <<storeVars, pageVars, decVars, batchVars, scanVars, cacheVars, lookupVars, thrVars, vecVars, deckVars>>
notThr == <<storeVars, pageVars, decVars, batchVars, scanVars, cacheVars, lookupVars, cfgVars, vecVars, deckVars>>
notVec == <<storeVars, pageVars, decVars, batchVars, scanVars, cacheVars, lookupVars, cfgVars, thrVars, deckVars>>
notDeck == <<storeVars, pageVars, decVars, batchVars, scanVars, cacheVars, lookupVars, cfgVars, thrVars, vecVars>>

\* the documents of the entity-store specification: the Group and the Protocol
\* of one page (build_id: "<class name>:<page id>")
DocIds == {"Group:1", "Protocol:1"}
Handles == 1..NumObjs
\* the document each object stands for: objects 1 and 3 are two Python objects
\* of the same document
DocOf(h) == IF h % 2 = 1 THEN "Group:1" ELSE "Protocol:1"

\* ------------------------------------------------------------------------
\* Helpers
\* ------------------------------------------------------------------------

RECURSIVE SeqFilterOut(_, _)
\* the sequence s without the elements of the set drop
SeqFilterOut(s, drop) ==
    IF s = <<>> THEN <<>>
    ELSE IF Head(s) \in drop THEN SeqFilterOut(Tail(s), drop)
         ELSE <<Head(s)>> \o SeqFilterOut(Tail(s), drop)

SeqRange(s) == {s[i] : i \in 1..Len(s)}

\* the last n elements of s (all of s when it is shorter)
LastN(s, n) == IF Len(s) <= n THEN s ELSE SubSeq(s, Len(s) - n + 1, Len(s))

\* ------------------------------------------------------------------------
\* The document store as pycouchdb presents it
\* ------------------------------------------------------------------------

\* db.save(doc) is accepted when the doc's _rev is the stored one, or when the
\* document does not exist and the doc carries no _rev; otherwise Conflict.
Accepts(id, rev) ==
    IF store[id].present THEN rev = store[id].rev ELSE rev = 0

\* the store after an accepted db.save: a new revision, the dumped body
Written(id, body) ==
    [store EXCEPT ![id] = [present |-> TRUE, rev |-> store[id].rev + 1,
                           bodyRev |-> body]]

\* ------------------------------------------------------------------------
\* CouchDBModel cache
\* ------------------------------------------------------------------------

CachedIds(c) == {inst[h].id : h \in SeqRange(c)}

\* _cache_add: the instance replaces the entry of its id, becomes the most
\* recently used one, and the least recently used entries are trimmed
cache_add(c, h) ==
    LET same == {g \in SeqRange(c) : inst[g].id = inst[h].id}
    IN  LastN(Append(SeqFilterOut(c, same), h), cacheMax)

\* ------------------------------------------------------------------------
\* CouchDBModel.save, one action per store call
\* ------------------------------------------------------------------------

\* save(): the id is built, the document is dumped with the object's revision
save_begin(h) ==
    /\ UNCHANGED notStore
    /\ pc = "idle"
    /\ store[inst[h].id].rev < MaxRev
    /\ pc' = "write"
    /\ cur' = h
    /\ docRev' = inst[h].rev
    /\ docBody' = inst[h].rev
    /\ nWrites' = 0
    /\ nFetches' = 0
    /\ conflict1' = FALSE
    /\ conflict2' = FALSE
    /\ fetched' = 0
    /\ outcome' = "running"
    /\ UNCHANGED <<store, inst, cache, cacheMax>>

\* the tail of save after an accepted write: id and rev from the saved
\* document, then _cache_add(self)
save_succeed ==
    LET id == inst[cur].id
    IN  /\ store' = Written(id, docBody)
        /\ inst' = [inst EXCEPT ![cur].rev = store[id].rev + 1]
        /\ cache' = cache_add(cache, cur)
        /\ outcome' = "ok"
        /\ pc' = "idle"

\* save_write with a handler that takes every error of the first attempt for a
\* conflict and goes on to fetch and write again
save_write_retrying_any_error ==
    /\ UNCHANGED notStore
    /\ pc = "write"
    /\ nWrites' = nWrites + 1
    /\ \E up \in BOOLEAN :
        IF ~up
        THEN /\ outcome' = "error"
             /\ pc' = "refetch"
             /\ UNCHANGED <<store, inst, cache, conflict1>>
        ELSE IF Accepts(inst[cur].id, docRev)
        THEN save_succeed /\ UNCHANGED conflict1
        ELSE /\ conflict1' = TRUE
             /\ pc' = "refetch"
             /\ UNCHANGED <<store, inst, cache, outcome>>
    /\ UNCHANGED <<cacheMax, cur, docRev, docBody, nFetches, conflict2, fetched>>

\* saved_doc = db.save(doc), the first attempt
save_write ==
    /\ UNCHANGED notStore
    /\ pc = "write"
    /\ nWrites' = nWrites + 1
    /\ \E up \in BOOLEAN :
        IF ~up
        THEN \* the store is unreachable: the error leaves save at once
             /\ outcome' = "error"
             /\ pc' = "idle"
             /\ UNCHANGED <<store, inst, cache, conflict1>>
        ELSE IF Accepts(inst[cur].id, docRev)
        THEN save_succeed /\ UNCHANGED conflict1
        ELSE \* except Conflict:
             /\ conflict1' = TRUE
             /\ pc' = "refetch"
             /\ UNCHANGED <<store, inst, cache, outcome>>
    /\ UNCHANGED <<cacheMax, cur, docRev, docBody, nFetches, conflict2, fetched>>

\* existing_doc = db.get(self.id); self.rev = doc["_rev"] = existing_doc["_rev"]
save_refetch ==
    /\ UNCHANGED notStore
    /\ pc = "refetch"
    /\ nFetches' = nFetches + 1
    /\ \E up \in BOOLEAN :
        IF ~up
        THEN /\ outcome' = "error"
             /\ pc' = "idle"
             /\ UNCHANGED <<inst, docRev, fetched>>
        ELSE IF store[inst[cur].id].present
        THEN /\ fetched' = store[inst[cur].id].rev
             /\ docRev' = store[inst[cur].id].rev
             /\ inst' = [inst EXCEPT ![cur].rev = store[inst[cur].id].rev]
             /\ pc' = "retry"
             /\ UNCHANGED outcome
        ELSE \* db.get raises NotFound, which save does not catch
             /\ outcome' = "notfound"
             /\ pc' = "idle"
             /\ UNCHANGED <<inst, docRev, fetched>>
    /\ UNCHANGED <<store, cache, cacheMax, cur, docBody, nWrites, conflict1,
                   conflict2>>

\* a retry that would fetch and write again on a second conflict
save_retry_again ==
    /\ UNCHANGED notStore
    /\ pc = "retry"
    /\ nWrites' = nWrites + 1
    /\ IF Accepts(inst[cur].id, docRev)
       THEN save_succeed /\ UNCHANGED conflict2
       ELSE /\ conflict2' = TRUE
            /\ pc' = "refetch"
            /\ UNCHANGED <<store, inst, cache, outcome>>
    /\ UNCHANGED <<cacheMax, cur, docRev, docBody, nFetches, conflict1, fetched>>

\* saved_doc = db.save(doc), the second attempt, outside any try block
save_retry ==
    /\ UNCHANGED notStore
    /\ pc = "retry"
    /\ nWrites' = nWrites + 1
    /\ \E up \in BOOLEAN :
        IF ~up
        THEN /\ outcome' = "error"
             /\ pc' = "idle"
             /\ UNCHANGED <<store, inst, cache, conflict2>>
        ELSE IF Accepts(inst[cur].id, docRev)
        THEN save_succeed /\ UNCHANGED conflict2
        ELSE \* a second Conflict propagates to the caller
             /\ conflict2' = TRUE
             /\ outcome' = "conflict"
             /\ pc' = "idle"
             /\ UNCHANGED <<store, inst, cache>>
    /\ UNCHANGED <<cacheMax, cur, docRev, docBody, nFetches, conflict1, fetched>>

\* ------------------------------------------------------------------------
\* Other writers of the same database (a second process, a human)
\* ------------------------------------------------------------------------

external_write(id) ==
    /\ UNCHANGED notStore
    /\ store[id].rev < MaxRev
    /\ store' = [store EXCEPT ![id] = [present |-> TRUE, rev |-> @.rev + 1,
                                       bodyRev |-> @.bodyRev]]
    /\ UNCHANGED <<inst, cache, cacheMax, pc, cur, docRev, docBody, nWrites,
                   nFetches, conflict1, conflict2, fetched, outcome>>

external_delete(id) ==
    /\ UNCHANGED notStore
    /\ store[id].present
    /\ store[id].rev < MaxRev
    /\ store' = [store EXCEPT ![id] = [present |-> FALSE, rev |-> @.rev + 1,
                                       bodyRev |-> 0]]
    /\ UNCHANGED <<inst, cache, cacheMax, pc, cur, docRev, docBody, nWrites,
                   nFetches, conflict1, conflict2, fetched, outcome>>

\* ------------------------------------------------------------------------
\* Pages, their related entities and their vector chunks
\* ------------------------------------------------------------------------

\* ocs.id of the pages; a page object built without an ocs id has ocs.id = 0
PageIds == {1, 2}
NoPageId == 0

\* the page document "CollectivePage:<collectives id>:<ocs id>"
PageDoc(p) == [type |-> "CollectivePage", page |-> p, k |-> 0]

\* the documents that carry a page_id field: page 1 is a protocol page that
\* also has a Group (Group:1, Protocol:1, Decision:1:<title>), page 2 has one
\* Decision
RelatedDocs ==
    {[type |-> t, page |-> 1, k |-> 0] : t \in {"Group", "Protocol"}}
    \cup {[type |-> "Decision", page |-> 1, k |-> k] : k \in 1..NumDecisions}
    \cup {[type |-> "Decision", page |-> 2, k |-> 1]}

\* the _find of delete: selector {"page_id": p}, limit 10000
FindByPage(p) ==
    LET hits == {d \in docs : d.type # "CollectivePage" /\ d.page = p}
    IN  IF Cardinality(hits) <= DeleteFindLimit THEN hits
        ELSE CHOOSE part \in SUBSET hits : Cardinality(part) = DeleteFindLimit

\* collection.get(where={"page_id": p})
ChunksOfPage(p) == {c \in chunks : c.page_id = p}

\* group is None after the ValueError of Group.get_for_page: group_id is ""
NoGroupId == ""

\* what Group.get_for_page(page) can yield: page 1 lies in the folder of the
\* group Group:1, which get_by_name finds or does not find (ValueError, "");
\* the path of page 2 has no valid group name (ValueError, "")
ResolvedGroups(p) == IF p = 1 THEN {NoGroupId, "Group:1"} ELSE {NoGroupId}

\* the resolution while the group of the folder of page 1 is known
FolderGroup(p) == IF p = 1 THEN "Group:1" ELSE NoGroupId

\* the id f"{self.build_id()}_chunk_{i}"
ChunkId(p, i) == [doc |-> PageDoc(p), chunk |-> i]

\* the entry of chunk i of n with the metadata save writes
ChunkEntry(p, i, n, g) ==
    [id |-> ChunkId(p, i), page_id |-> p, group_id |-> g, chunk_index |-> i,
     total_chunks |-> n, original_doc_id |-> PageDoc(p)]

\* an upsert that counts the chunks written so far as the total
Upserted_total_so_far(p, i, n, g) ==
    {c \in chunks : c.id # ChunkId(p, i)} \cup {ChunkEntry(p, i, i + 1, g)}

\* an upsert that also drops the page's entries beyond the new chunk count
Upserted_pruning(p, i, n, g) ==
    {c \in chunks : c.id # ChunkId(p, i) /\ ~(c.page_id = p /\ c.chunk_index >= n)}
        \cup {ChunkEntry(p, i, n, g)}

\* collection.upsert of chunk i of n: the entry of that chunk id is replaced
Upserted(p, i, n, g) ==
    {c \in chunks : c.id # ChunkId(p, i)} \cup {ChunkEntry(p, i, n, g)}

\* Group.save / Protocol.save / Decision.save of the parser: the entity's
\* document is in the store afterwards
entity_save(d) ==
    /\ ppc = "idle"
    /\ d \notin docs
    /\ docs' = docs \cup {d}
    /\ UNCHANGED <<chunks, pop, ppc, pcur, found, attempted, failedSub, chunkTried,
                   pageStored, saveN, saveG, saveI, presult, raisedAt>>
    /\ UNCHANGED notPage

\* the call returns to its caller
page_return ==
    /\ ppc = "done"
    /\ ppc' = "idle"
    /\ pop' = "none"
    /\ pcur' = NoPageId
    /\ found' = {}
    /\ attempted' = {}
    /\ failedSub' = FALSE
    /\ chunkTried' = FALSE
    /\ pageStored' = FALSE
    /\ saveN' = 0
    /\ saveG' = NoGroupId
    /\ saveI' = 0
    /\ presult' = "none"
    /\ raisedAt' = "none"
    /\ UNCHANGED <<docs, chunks>>
    /\ UNCHANGED notPage

\* --- CollectivePage.save ---

\* save() of a page whose content splits into n chunks (n = 0: no content or
\* whitespace only); with content, Group.get_for_page(self) yields the group
\* with build_id g, or raises ValueError (g = "") and group is None
page_save_begin(p, n, g) ==
    /\ ppc = "idle"
    /\ pop' = "save"
    /\ pcur' = p
    /\ saveN' = n
    /\ saveG' = IF n = 0 THEN NoGroupId ELSE g
    /\ saveI' = 0
    /\ pageStored' = (PageDoc(p) \in docs)
    /\ found' = {}
    /\ attempted' = {}
    /\ failedSub' = FALSE
    /\ chunkTried' = FALSE
    /\ IF p = NoPageId
       THEN \* build_id raises ValueError inside super().save()
            /\ ppc' = "done"
            /\ presult' = "raised"
            /\ raisedAt' = "build_id"
       ELSE /\ ppc' = "save_doc"
            /\ presult' = "running"
            /\ raisedAt' = "none"
    /\ UNCHANGED <<docs, chunks>>
    /\ UNCHANGED notPage

\* super().save(): the write of the page document
page_save_doc ==
    /\ ppc = "save_doc"
    /\ \E ok \in BOOLEAN :
        IF ok
        THEN /\ docs' = docs \cup {PageDoc(pcur)}
             /\ IF saveN = 0
                THEN ppc' = "done" /\ presult' = "ok"
                ELSE ppc' = "save_upsert" /\ UNCHANGED presult
             /\ UNCHANGED raisedAt
        ELSE /\ ppc' = "done"
             /\ presult' = "raised"
             /\ raisedAt' = "save_doc"
             /\ UNCHANGED docs
    /\ UNCHANGED <<chunks, pcur, found, attempted, failedSub, chunkTried,
                   pageStored, saveN, saveG, saveI>>
    /\ UNCHANGED pop
    /\ UNCHANGED notPage

\* for i in range(len(chunks)): collection.upsert(...), one chunk per step,
\* in no try block
page_save_upsert ==
    /\ ppc = "save_upsert"
    /\ \E ok \in BOOLEAN :
        IF ok
        THEN /\ chunks' = Upserted(pcur, saveI, saveN, saveG)
             /\ saveI' = saveI + 1
             /\ IF saveI + 1 = saveN
                THEN ppc' = "done" /\ presult' = "ok"
                ELSE UNCHANGED <<ppc, presult>>
             /\ UNCHANGED <<failedSub, raisedAt>>
        ELSE \* the error of upsert leaves save
             /\ failedSub' = TRUE
             /\ ppc' = "done"
             /\ presult' = "raised"
             /\ raisedAt' = "save_upsert"
             /\ UNCHANGED <<chunks, saveI>>
    /\ UNCHANGED <<docs, pcur, found, attempted, chunkTried, pageStored, saveN, saveG>>
    /\ UNCHANGED pop
    /\ UNCHANGED notPage

\* --- CollectivePage.delete ---

\* a delete that would remove the page document before the cascade
page_delete_begin_page_first(p) ==
    /\ ppc = "idle"
    /\ pop' = "delete"
    /\ pcur' = p
    /\ pageStored' = (PageDoc(p) \in docs)
    /\ found' = {}
    /\ attempted' = {}
    /\ failedSub' = FALSE
    /\ chunkTried' = FALSE
    /\ saveN' = 0
    /\ saveG' = NoGroupId
    /\ saveI' = 0
    /\ presult' = "running"
    /\ raisedAt' = "none"
    /\ ppc' = IF p = NoPageId THEN "del_page" ELSE "del_find"
    /\ docs' = docs \ {PageDoc(p)}
    /\ UNCHANGED chunks
    /\ UNCHANGED notPage

\* delete(): page_id = self.ocs.id; the cascade runs only for a non-zero id
page_delete_begin(p) ==
    /\ ppc = "idle"
    /\ pop' = "delete"
    /\ pcur' = p
    /\ pageStored' = (PageDoc(p) \in docs)
    /\ found' = {}
    /\ attempted' = {}
    /\ failedSub' = FALSE
    /\ chunkTried' = FALSE
    /\ saveN' = 0
    /\ saveG' = NoGroupId
    /\ saveI' = 0
    /\ presult' = "running"
    /\ raisedAt' = "none"
    /\ ppc' = IF p = NoPageId THEN "del_page" ELSE "del_find"
    /\ UNCHANGED <<docs, chunks>>
    /\ UNCHANGED notPage

\* db.resource.post("_find", ...); response.raise_for_status()
page_delete_find ==
    /\ ppc = "del_find"
    /\ \E ok \in BOOLEAN :
        IF ok
        THEN /\ found' = FindByPage(pcur)
             /\ ppc' = IF FindByPage(pcur) = {} THEN "del_chunks" ELSE "del_related"
             /\ UNCHANGED <<presult, raisedAt>>
        ELSE /\ ppc' = "done"
             /\ presult' = "raised"
             /\ raisedAt' = "del_find"
             /\ UNCHANGED found
    /\ UNCHANGED <<docs, chunks, pcur, attempted, failedSub, chunkTried,
                   pageStored, saveN, saveG, saveI>>
    /\ UNCHANGED pop
    /\ UNCHANGED notPage

\* a loop over the related documents that a failed db.delete would leave
page_delete_related_abort ==
    /\ ppc = "del_related"
    /\ \E d \in found \ attempted, ok \in BOOLEAN :
        /\ attempted' = attempted \cup {d}
        /\ IF ok
           THEN /\ docs' = docs \ {d}
                /\ ppc' = IF attempted \cup {d} = found THEN "del_chunks"
                          ELSE "del_related"
                /\ UNCHANGED <<failedSub, presult, raisedAt>>
           ELSE /\ failedSub' = TRUE
                /\ ppc' = "done"
                /\ presult' = "raised"
                /\ raisedAt' = "del_related"
                /\ UNCHANGED docs
    /\ UNCHANGED <<chunks, pcur, found, chunkTried, pageStored, saveN, saveG, saveI>>
    /\ UNCHANGED pop
    /\ UNCHANGED notPage

\* for doc in results["docs"]: try: db.delete(doc_id) except Exception: log
page_delete_related ==
    /\ ppc = "del_related"
    /\ \E d \in found \ attempted, ok \in BOOLEAN :
        /\ attempted' = attempted \cup {d}
        /\ docs' = IF ok THEN docs \ {d} ELSE docs
        /\ failedSub' = (failedSub \/ ~ok)
        /\ ppc' = IF attempted \cup {d} = found THEN "del_chunks" ELSE "del_related"
    /\ UNCHANGED <<chunks, pcur, found, chunkTried, pageStored, saveN, saveG, saveI,
                   presult, raisedAt>>
    /\ UNCHANGED pop
    /\ UNCHANGED notPage

\* try: collection.get(where page_id); collection.delete(ids) except: log
page_delete_chunks ==
    /\ ppc = "del_chunks"
    /\ chunkTried' = TRUE
    /\ \E ok \in BOOLEAN :
        /\ chunks' = IF ok THEN chunks \ ChunksOfPage(pcur) ELSE chunks
        /\ failedSub' = (failedSub \/ ~ok)
    /\ ppc' = "del_page"
    /\ UNCHANGED <<docs, pcur, found, attempted, pageStored, saveN, saveG, saveI,
                   presult, raisedAt>>
    /\ UNCHANGED pop
    /\ UNCHANGED notPage

\* super().delete(): ValueError without an id, else db.delete(self.id)
page_delete_page ==
    /\ ppc = "del_page"
    /\ ppc' = "done"
    /\ \E ok \in BOOLEAN :
        IF pcur = NoPageId
        THEN /\ presult' = "raised"
             /\ raisedAt' = "no_id"
             /\ UNCHANGED docs
        ELSE IF ok /\ PageDoc(pcur) \in docs
        THEN /\ docs' = docs \ {PageDoc(pcur)}
             /\ presult' = "ok"
             /\ UNCHANGED raisedAt
        ELSE \* the store is unreachable, or NotFound
             /\ presult' = "raised"
             /\ raisedAt' = "del_page"
             /\ UNCHANGED docs
    /\ UNCHANGED <<chunks, pcur, found, attempted, failedSub, chunkTried,
                   pageStored, saveN, saveG, saveI>>
    /\ UNCHANGED pop
    /\ UNCHANGED notPage

\* --- Protocol.delete ---

\* the document of the Protocol of page p, "Protocol:<page id>"
ProtocolDoc(p) == [type |-> "Protocol", page |-> p, k |-> 0]

\* Decision.get_all(selector={"page_id": p}, limit=1000)
get_all_decisions(p) ==
    LET hits == {d \in docs : d.type = "Decision" /\ d.page = p}
    IN  IF Cardinality(hits) <= ProtocolDeleteLimit THEN hits
        ELSE CHOOSE part \in SUBSET hits : Cardinality(part) = ProtocolDeleteLimit

\* a delete() that goes to the protocol document at once
protocol_delete_begin_doc_only(p) ==
    /\ ppc = "idle"
    /\ pop' = "protocol_delete"
    /\ pcur' = p
    /\ pageStored' = (ProtocolDoc(p) \in docs)
    /\ found' = {}
    /\ attempted' = {}
    /\ failedSub' = FALSE
    /\ chunkTried' = FALSE
    /\ saveN' = 0
    /\ saveG' = NoGroupId
    /\ saveI' = 0
    /\ ppc' = "pdel_doc"
    /\ presult' = "running"
    /\ raisedAt' = "none"
    /\ UNCHANGED <<docs, chunks>>
    /\ UNCHANGED notPage

\* Protocol.delete() up to the loop: with a page_id it asks for the decisions
\* of the page (the query may fail), without one it goes on to the document
protocol_delete_begin(p) ==
    /\ ppc = "idle"
    /\ pop' = "protocol_delete"
    /\ pcur' = p
    /\ pageStored' = (ProtocolDoc(p) \in docs)
    /\ attempted' = {}
    /\ failedSub' = FALSE
    /\ chunkTried' = FALSE
    /\ saveN' = 0
    /\ saveG' = NoGroupId
    /\ saveI' = 0
    /\ \E ok \in BOOLEAN :
        IF p = NoPageId
        THEN /\ found' = {}
             /\ ppc' = "pdel_doc"
             /\ presult' = "running"
             /\ raisedAt' = "none"
        ELSE IF ok
        THEN /\ found' = get_all_decisions(p)
             /\ ppc' = IF get_all_decisions(p) = {} THEN "pdel_doc" ELSE "pdel_decisions"
             /\ presult' = "running"
             /\ raisedAt' = "none"
        ELSE /\ found' = {}
             /\ ppc' = "done"
             /\ presult' = "raised"
             /\ raisedAt' = "get_all"
    /\ UNCHANGED <<docs, chunks>>
    /\ UNCHANGED notPage

\* decision.delete() of the loop: the vector entry, then the document; an
\* error of either leaves Protocol.delete
protocol_delete_decision ==
    /\ ppc = "pdel_decisions"
    /\ \E d \in found \ attempted, ok \in BOOLEAN :
        /\ attempted' = attempted \cup {d}
        /\ IF ok /\ d \in docs
           THEN /\ docs' = docs \ {d}
                /\ ppc' = IF attempted \cup {d} = found THEN "pdel_doc"
                          ELSE "pdel_decisions"
                /\ UNCHANGED <<failedSub, presult, raisedAt>>
           ELSE /\ failedSub' = TRUE
                /\ ppc' = "done"
                /\ presult' = "raised"
                /\ raisedAt' = "decision_delete"
                /\ UNCHANGED docs
    /\ UNCHANGED <<chunks, pop, pcur, found, chunkTried, pageStored, saveN, saveG, saveI>>
    /\ UNCHANGED notPage

\* super().delete(): db.delete(self.id) raises when the store is down or the
\* protocol's document is not there
protocol_delete_doc ==
    /\ ppc = "pdel_doc"
    /\ ppc' = "done"
    /\ \E ok \in BOOLEAN :
        IF ok /\ ProtocolDoc(pcur) \in docs
        THEN /\ docs' = docs \ {ProtocolDoc(pcur)}
             /\ presult' = "ok"
             /\ UNCHANGED raisedAt
        ELSE /\ presult' = "raised"
             /\ raisedAt' = "del_protocol"
             /\ UNCHANGED docs
    /\ UNCHANGED <<chunks, pop, pcur, found, attempted, failedSub, chunkTried,
                   pageStored, saveN, saveG, saveI>>
    /\ UNCHANGED notPage

\* ------------------------------------------------------------------------
\* Decision extraction (models/protocol.py, models/decision.py)
\* ------------------------------------------------------------------------

\* Text is a sequence of characters.  A content line is a token: the opening
\* marker "::: success", the closing marker ":::", a blank line, or a text
\* line given by the keyword it starts with ("title", "valid", "objection" or
\* "none") and by what clean_line and the keyword's prefix regex leave of it.
TokOpen == [tok |-> "open", kw |-> "none", txt |-> <<>>]
TokClose == [tok |-> "close", kw |-> "none", txt |-> <<>>]
TokBlank == [tok |-> "blank", kw |-> "none", txt |-> <<>>]
TextLine(k, t) == [tok |-> "text", kw |-> k, txt |-> t]

\* page.content is None or "", or the page object is missing
NoContent == <<>>

\* the page of the protocol and another page whose decisions must stay
ProtocolPage == 1
OtherPage == 2

\* the keyword a text line starts with, as one character of the cleaned line
KeywordText(k) ==
    IF k = "title" THEN <<"T:">>
    ELSE IF k = "valid" THEN <<"V:">>
    ELSE IF k = "objection" THEN <<"O:">>
    ELSE <<>>

\* clean_line(line): emphasis markers and surrounding white space removed
clean_line(l) == IF l.tok = "text" THEN KeywordText(l.kw) \o l.txt ELSE <<>>

\* the title candidate: the cleaned first line without a title-keyword prefix
TitleOf(l) == IF l.kw = "title" THEN l.txt ELSE clean_line(l)

\* python: e in t
Contains(t, e) ==
    \E i \in 0..(Len(t) - Len(e)) : SubSeq(t, i + 1, i + Len(e)) = e

\* python: t[0:n]
Take(t, n) == IF Len(t) <= n THEN t ELSE SubSeq(t, 1, n)

\* re.findall(r"::: success(.*?):::", content, re.DOTALL): a block opens at
\* "::: success" and ends at the next ":::", which may be the ":::" of a
\* following "::: success"; an unclosed block is no match
RECURSIVE FindBlocksFrom(_, _, _, _)
FindBlocksFrom(c, i, inside, blk) ==
    IF i > Len(c) THEN <<>>
    ELSE IF ~inside
         THEN FindBlocksFrom(c, i + 1, c[i].tok = "open", <<>>)
         ELSE IF c[i].tok \in {"open", "close"}
              THEN <<blk>> \o FindBlocksFrom(c, i + 1, FALSE, <<>>)
              ELSE FindBlocksFrom(c, i + 1, TRUE, Append(blk, c[i]))

FindBlocks(c) == FindBlocksFrom(c, 1, FALSE, <<>>)

\* block.strip().splitlines(): blank lines at both ends are dropped
RECURSIVE StripBlank(_)
StripBlank(b) ==
    IF b = <<>> THEN <<>>
    ELSE IF Head(b).tok = "blank" THEN StripBlank(Tail(b))
    ELSE IF b[Len(b)].tok = "blank" THEN StripBlank(SubSeq(b, 1, Len(b) - 1))
    ELSE b

\* " ".join(clean_line(l) for l in lines[j:])
RECURSIVE JoinRest(_, _)
JoinRest(lines, j) ==
    IF j > Len(lines) THEN <<>>
    ELSE IF j = Len(lines) THEN clean_line(lines[j])
    ELSE clean_line(lines[j]) \o <<" ">> \o JoinRest(lines, j + 1)

\* a loop that goes on parsing after the objections were found
RECURSIVE ParseLines_past_objections(_, _, _)
ParseLines_past_objections(lines, i, d) ==
    IF i > Len(lines) THEN d
    ELSE IF clean_line(lines[i]) = <<>>
         THEN ParseLines_past_objections(lines, i + 1, d)
    ELSE IF lines[i].kw = "valid"
         THEN ParseLines_past_objections(lines, i + 1,
                  [d EXCEPT !.valid_until = lines[i].txt])
    ELSE IF lines[i].kw = "objection"
         THEN ParseLines_past_objections(lines, i + 1,
                  [d EXCEPT !.objections = lines[i].txt \o JoinRest(lines, i + 1)])
    ELSE ParseLines_past_objections(lines, i + 1,
                  [d EXCEPT !.text = @ \o clean_line(lines[i]) \o <<" ">>])

\* the loop of save_decision over the lines after the title line
RECURSIVE ParseLines(_, _, _)
ParseLines(lines, i, d) ==
    IF i > Len(lines) THEN d
    ELSE IF clean_line(lines[i]) = <<>> \/ d.objections # <<>>
         THEN ParseLines(lines, i + 1, d)
    ELSE IF lines[i].kw = "valid"
         THEN ParseLines(lines, i + 1, [d EXCEPT !.valid_until = lines[i].txt])
    ELSE IF lines[i].kw = "objection"
         THEN ParseLines(lines, i + 1,
                  [d EXCEPT !.objections = lines[i].txt \o JoinRest(lines, i + 1)])
    ELSE ParseLines(lines, i + 1,
                  [d EXCEPT !.text = @ \o clean_line(lines[i]) \o <<" ">>])

\* Decision.build_id: the id is built from the page id and the first
\* DecisionIdChars characters of the title (of the text without a title)
build_id(title, text) ==
    IF title # <<>> THEN Take(title, DecisionIdChars) ELSE Take(text, DecisionIdChars)

\* save_decision without the filling of an empty title
save_decision_no_fill(block) ==
    LET lines == StripBlank(block) IN
    IF lines = <<>> THEN [kind |-> "skip"]
    ELSE LET title == TitleOf(lines[1]) IN
         IF Contains(title, ExampleTitle) THEN [kind |-> "skip"]
         ELSE LET d == ParseLines(lines, 2,
                           [text |-> <<>>, valid_until |-> <<>>, objections |-> <<>>])
              IN IF title = <<>> /\ d.text = <<>>
                 THEN [kind |-> "raise"]
                 ELSE [kind |-> "saved",
                       dec |-> [page |-> ProtocolPage, key |-> build_id(title, d.text),
                                title |-> title, text |-> d.text,
                                valid_until |-> d.valid_until,
                                objections |-> d.objections]]

\* save_decision(block): "skip" (returns None), "raise" (Decision.build_id
\* raises ValueError inside decision.save()) or "saved" with the decision
save_decision(block) ==
    LET lines == StripBlank(block) IN
    IF lines = <<>> THEN [kind |-> "skip"]
    ELSE LET title == TitleOf(lines[1]) IN
         IF Contains(title, ExampleTitle) THEN [kind |-> "skip"]
         ELSE LET d == ParseLines(lines, 2,
                           [text |-> <<>>, valid_until |-> <<>>, objections |-> <<>>])
                  t2 == IF title = <<>> THEN d.text ELSE title
                  x2 == IF title = <<>> THEN <<>> ELSE d.text
              IN IF t2 = <<>> /\ x2 = <<>>
                 THEN [kind |-> "raise"]
                 ELSE [kind |-> "saved",
                       dec |-> [page |-> ProtocolPage, key |-> build_id(t2, x2),
                                title |-> t2, text |-> x2,
                                valid_until |-> d.valid_until,
                                objections |-> d.objections]]

\* Decision.get_all(selector={"page_id": p}): the stored decisions of the page,
\* at most GetAllLimit of them
get_all_by_page(p) ==
    LET all == {d \in decs : d.page = p} IN
    IF Cardinality(all) <= GetAllLimit THEN all
    ELSE CHOOSE s \in SUBSET all : Cardinality(s) = GetAllLimit

\* the success blocks pages are written with
BlockTitled == <<TextLine("title", <<"A">>), TextLine("none", <<"x">>)>>
BlockPlain == <<TokBlank, TextLine("none", <<"B">>), TokBlank>>
BlockBodyOnly == <<TextLine("title", <<>>), TextLine("none", <<"y">>)>>
BlockKeywordOnly == <<TextLine("title", <<>>)>>
BlockBlank == <<TokBlank>>
BlockExample == <<TextLine("title", ExampleTitle)>>
BlockFull ==
    <<TextLine("title", <<"A">>), TextLine("valid", <<"v">>),
      TextLine("objection", <<"o">>), TextLine("none", <<"z">>)>>

\* a body line, an objections line with nothing after the keyword, then a
\* valid-until line and a body line
BlockLate ==
    <<TextLine("title", <<"C">>), TextLine("none", <<"x">>),
      TextLine("objection", <<>>), TextLine("valid", <<"w">>),
      TextLine("none", <<"z">>)>>

Blocks == {BlockTitled, BlockPlain, BlockBodyOnly, BlockKeywordOnly, BlockBlank,
           BlockExample, BlockFull, BlockLate}

\* a page: a paragraph, then each block between its markers
RECURSIVE Wrap(_)
Wrap(bs) ==
    IF bs = <<>> THEN <<TextLine("none", <<"p">>)>>
    ELSE Wrap(SubSeq(bs, 1, Len(bs) - 1)) \o <<TokOpen>> \o bs[Len(bs)] \o <<TokClose>>

\* a page whose first block is not closed before the second one opens
Unclosed == <<TokOpen>> \o BlockTitled \o <<TokOpen>> \o BlockPlain \o <<TokClose>>

Contents ==
    {NoContent} \cup {Unclosed}
    \cup {Wrap(bs) : bs \in UNION {[1..n -> Blocks] : n \in 0..MaxBlocks}}

Dates == {"none", "past", "today", "future"}

\* bot_config.organisation.protocol_max_age_days and protocol_cooldown_minutes
ProtocolMaxAgeDays == 14
CooldownMinutes == 60

\* the pages, ages and modification times update_from_page is followed on
UpdateContents == {Wrap(<<>>), Wrap(<<BlockTitled>>), Wrap(<<BlockKeywordOnly>>)}
DaysOld == {-1, 0, ProtocolMaxAgeDays, ProtocolMaxAgeDays + 1}
MinutesAgo == {CooldownMinutes - 1, CooldownMinutes + 1}

\* a decision of the other page
OtherDecision ==
    [page |-> OtherPage, key |-> <<"A">>, title |-> <<"A">>, text |-> <<>>,
     valid_until |-> <<>>, objections |-> <<>>]

\* where extract_decisions hands control back to
Exit(via) == IF via = "update" THEN "tail" ELSE "done"

\* extract_decisions without the check of the date
extract_decisions_always(c, tv, dt, via) ==
    /\ dpc = "idle"
    /\ dcontent' = c
    /\ dtitleOK' = tv
    /\ ddate' = dt
    /\ dvia' = via
    /\ dbefore' = decs
    /\ dsaved' = <<>>
    /\ protSaved' = FALSE
    /\ IF c = NoContent
       THEN /\ dpc' = Exit(via)
            /\ dresult' = "returned"
            /\ dtodo' = {}
       ELSE /\ dpc' = "delete"
            /\ dresult' = "none"
            /\ dtodo' = get_all_by_page(ProtocolPage)
    /\ UNCHANGED <<decs, dblocks>>
    /\ UNCHANGED notDec

\* Protocol.extract_decisions up to the get_all query: page content c, tv the
\* value of valid_date(page.title), dt the protocol's date.  Without content,
\* or with a dated title and a date after today, it returns [] at once.
extract_decisions(c, tv, dt, via) ==
    /\ dpc = "idle"
    /\ dcontent' = c
    /\ dtitleOK' = tv
    /\ ddate' = dt
    /\ dvia' = via
    /\ dbefore' = decs
    /\ dsaved' = <<>>
    /\ protSaved' = FALSE
    /\ IF c = NoContent \/ (tv /\ dt = "future")
       THEN /\ dpc' = Exit(via)
            /\ dresult' = "returned"
            /\ dtodo' = {}
       ELSE /\ dpc' = "delete"
            /\ dresult' = "none"
            /\ dtodo' = get_all_by_page(ProtocolPage)
    /\ UNCHANGED <<decs, dblocks>>
    /\ UNCHANGED notDec

\* the date against today, from days_old
DateOf(tv, days) ==
    IF ~tv THEN "none"
    ELSE IF days < 0 THEN "future"
    ELSE IF days = 0 THEN "today"
    ELSE "past"

\* the group_id after the two attempts of update_from_page: g1 from
\* Group.get_for_page(page), after its ValueError g2 from
\* Group.get_by_name(<title without its first word>), after that one's
\* ValueError the old group_id
ResolveGroup(g1, g2, old) ==
    IF g1 # NoGroupId THEN g1
    ELSE IF g2 # NoGroupId THEN g2
    ELSE old

\* Protocol.update_from_page up to its call of extract_decisions: it raises
\* before the call when the page has no content, and it takes the date from a
\* dated title (tv; days days before today); parse_content builds the
\* protocol with date "" and no group_id.  The page was modified mins minutes
\* ago.
update_from_page(c, tv, days, g1, g2, mins) ==
    /\ c # NoContent
    /\ dgroup' = ResolveGroup(g1, g2, NoGroupId)
    /\ ddays' = IF tv THEN days ELSE 0
    /\ dmins' = mins
    /\ dnotified' = 0
    /\ extract_decisions(c, tv, DateOf(tv, days), "update")

\* a caller with a Protocol object of any date calls extract_decisions
call_extract_decisions ==
    /\ dpc = "idle"
    /\ \E c \in Contents, tv \in BOOLEAN, dt \in Dates :
           extract_decisions(c, tv, dt, "direct")
    /\ dgroup' = NoGroupId
    /\ ddays' = 0
    /\ dmins' = 0
    /\ dnotified' = 0

\* parse_content calls update_from_page on the protocol of a page that was
\* last modified long ago and lies in the folder of a known group
call_update_from_page ==
    /\ dpc = "idle"
    /\ \E c \in Contents, tv \in BOOLEAN, days \in -1..1 :
           /\ ~tv => days = 0
           /\ update_from_page(c, tv, days, FolderGroup(ProtocolPage), NoGroupId,
                               2 * CooldownMinutes)

\* parse_content calls update_from_page on the protocol of a page of any age,
\* modified any time ago, with any outcome of the group resolution
call_update_from_any_page ==
    /\ dpc = "idle"
    /\ \E c \in UpdateContents, tv \in BOOLEAN, days \in DaysOld, mins \in MinutesAgo :
       \E g1 \in ResolvedGroups(ProtocolPage), g2 \in ResolvedGroups(ProtocolPage) :
           /\ ~tv => days = 0
           /\ update_from_page(c, tv, days, g1, g2, mins)

\* the loop over the decisions get_all returned, without d.delete()
extract_delete_keep ==
    /\ dpc = "delete"
    /\ \E d \in dtodo : dtodo' = dtodo \ {d}
    /\ UNCHANGED <<decs, dcontent, dtitleOK, ddate, dvia, dpc, dblocks, dsaved, dbefore,
                   dresult, protSaved>>
    /\ UNCHANGED updVars
    /\ UNCHANGED notDec

\* d.delete() of the loop over the decisions get_all returned
extract_delete ==
    /\ dpc = "delete"
    /\ \E d \in dtodo :
        /\ decs' = decs \ {d}
        /\ dtodo' = dtodo \ {d}
    /\ UNCHANGED <<dcontent, dtitleOK, ddate, dvia, dpc, dblocks, dsaved, dbefore,
                   dresult, protSaved>>
    /\ UNCHANGED updVars
    /\ UNCHANGED notDec

\* the deletion loop is over: re.findall
extract_findall ==
    /\ dpc = "delete"
    /\ dtodo = {}
    /\ dblocks' = FindBlocks(dcontent)
    /\ dpc' = "save"
    /\ UNCHANGED <<decs, dcontent, dtitleOK, ddate, dvia, dtodo, dsaved, dbefore,
                   dresult, protSaved>>
    /\ UNCHANGED updVars
    /\ UNCHANGED notDec

\* one round of the loop over the blocks: save_decision(block); a Decision
\* saved under an id that is already stored replaces that document
extract_block ==
    /\ dpc = "save"
    /\ dblocks # <<>>
    /\ LET r == save_decision(Head(dblocks)) IN
        /\ dblocks' = Tail(dblocks)
        /\ IF r.kind = "saved"
           THEN /\ decs' = {d \in decs : ~(d.page = r.dec.page /\ d.key = r.dec.key)}
                           \cup {r.dec}
                /\ dsaved' = Append(dsaved, r.dec)
                /\ UNCHANGED <<dpc, dresult>>
           ELSE IF r.kind = "raise"
           THEN /\ dpc' = Exit(dvia)
                /\ dresult' = "raised"
                /\ UNCHANGED <<decs, dsaved>>
           ELSE UNCHANGED <<decs, dsaved, dpc, dresult>>
    /\ UNCHANGED <<dcontent, dtitleOK, ddate, dvia, dtodo, dbefore, protSaved>>
    /\ UNCHANGED updVars
    /\ UNCHANGED notDec

\* the loop over the blocks is over: return decisions
extract_return ==
    /\ dpc = "save"
    /\ dblocks = <<>>
    /\ dpc' = Exit(dvia)
    /\ dresult' = "returned"
    /\ UNCHANGED <<decs, dcontent, dtitleOK, ddate, dvia, dtodo, dblocks, dsaved,
                   dbefore, protSaved>>
    /\ UNCHANGED updVars
    /\ UNCHANGED notDec

\* the rest of the try block of update_from_page when extract_decisions
\* returned: notify_updated(decisions) for a protocol with a date that is 0 to
\* protocol_max_age_days days old, then self.save(); the ValueError of
\* extract_decisions is logged and both are skipped
update_from_page_end ==
    /\ dpc = "tail"
    /\ protSaved' = (dresult = "returned")
    /\ dnotified' = IF /\ dresult = "returned"
                       /\ ddate # "none"
                       /\ ddays >= 0
                       /\ ddays <= ProtocolMaxAgeDays
                    THEN dnotified + 1
                    ELSE dnotified
    /\ UNCHANGED <<dgroup, ddays, dmins>>
    /\ dpc' = "done"
    /\ UNCHANGED <<decs, dcontent, dtitleOK, ddate, dvia, dtodo, dblocks, dsaved,
                   dbefore, dresult>>
    /\ UNCHANGED notDec

\* the caller goes on; the record of the call is dropped
dec_return ==
    /\ dpc = "done"
    /\ dpc' = "idle"
    /\ dcontent' = <<>>
    /\ dtitleOK' = FALSE
    /\ ddate' = "none"
    /\ dvia' = "none"
    /\ dtodo' = {}
    /\ dblocks' = <<>>
    /\ dsaved' = <<>>
    /\ dbefore' = {}
    /\ dresult' = "none"
    /\ protSaved' = FALSE
    /\ dgroup' = NoGroupId
    /\ ddays' = 0
    /\ dmins' = 0
    /\ dnotified' = 0
    /\ UNCHANGED decs
    /\ UNCHANGED notDec

\* ------------------------------------------------------------------------
\* Batch loops (collectives_parser.py parse_pages, runner.py process_pages)
\* ------------------------------------------------------------------------

BatchPages == 1..NumBatchPages

\* the batches: any pages of the store, each once, in any order
Batches ==
    {q \in UNION {[1..n -> BatchPages] : n \in 0..NumBatchPages} :
        \A i, j \in 1..Len(q) : i # j => q[i] # q[j]}

\* an exception leaves the loop and the batch function
batch_raise ==
    /\ bpc' = "done"
    /\ bresult' = "raised"
    /\ braisedAt' = bidx
    /\ UNCHANGED <<bop, bphase, bqueue, bidx, bfailed>>

\* parse_pages(): the pages CollectivePage.get_all returned
parse_pages(q) ==
    /\ bpc = "idle"
    /\ bop' = "parse_pages"
    /\ bphase' = "parse"
    /\ bqueue' = q
    /\ bidx' = 1
    /\ bpc' = "loop"
    /\ UNCHANGED <<bdone, bfailed, bresult, braisedAt>>
    /\ UNCHANGED notBatch

\* one round of the loop of parse_pages: parse_content(page); page.save().
\* Either call can raise (a store or index error, a second Conflict).
parse_pages_page ==
    /\ bpc = "loop"
    /\ bop = "parse_pages"
    /\ bidx <= Len(bqueue)
    /\ \E out \in {"ok", "parse raised", "save raised"} :
        IF out = "ok"
        THEN /\ bdone' = bdone \cup {[page |-> bqueue[bidx], step |-> "parse"],
                                     [page |-> bqueue[bidx], step |-> "save"]}
             /\ bidx' = bidx + 1
             /\ UNCHANGED <<bop, bphase, bqueue, bfailed, bpc, bresult, braisedAt>>
        ELSE /\ bdone' = IF out = "save raised"
                         THEN bdone \cup {[page |-> bqueue[bidx], step |-> "parse"]}
                         ELSE bdone
             /\ batch_raise
    /\ UNCHANGED notBatch

\* process_pages(updated_pages, force_save)
process_pages(q, force_save) ==
    /\ bpc = "idle"
    /\ bop' = "process_pages"
    /\ bphase' = IF force_save THEN "save" ELSE "groups"
    /\ bqueue' = q
    /\ bidx' = 1
    /\ bpc' = "loop"
    /\ UNCHANGED <<bdone, bfailed, bresult, braisedAt>>
    /\ UNCHANGED notBatch

\* one round of the force_save loop of process_pages: page.save()
process_pages_save ==
    /\ bpc = "loop"
    /\ bop = "process_pages"
    /\ bphase = "save"
    /\ bidx <= Len(bqueue)
    /\ \/ /\ bdone' = bdone \cup {[page |-> bqueue[bidx], step |-> "save"]}
          /\ bidx' = bidx + 1
          /\ UNCHANGED <<bop, bphase, bqueue, bfailed, bpc, bresult, braisedAt>>
       \/ /\ batch_raise
          /\ UNCHANGED bdone
    /\ UNCHANGED notBatch

\* one round of the parse_groups / parse_protocols loop of process_pages: the
\* parser handles the page or reports it as failed
process_pages_parse ==
    /\ bpc = "loop"
    /\ bop = "process_pages"
    /\ bphase \in {"groups", "protocols"}
    /\ bidx <= Len(bqueue)
    /\ \/ /\ bdone' = bdone \cup {[page |-> bqueue[bidx], step |-> bphase]}
          /\ UNCHANGED bfailed
       \/ /\ bfailed' = bfailed \cup {bqueue[bidx]}
          /\ UNCHANGED bdone
    /\ bidx' = bidx + 1
    /\ UNCHANGED <<bop, bphase, bqueue, bpc, bresult, braisedAt>>
    /\ UNCHANGED notBatch

\* a loop is over: the next loop of process_pages begins, or the batch returns
\* (both functions return None)
batch_loop_end ==
    /\ bpc = "loop"
    /\ bidx > Len(bqueue)
    /\ IF bop = "process_pages" /\ bphase \in {"save", "groups"}
       THEN /\ bphase' = IF bphase = "save" THEN "groups" ELSE "protocols"
            /\ bidx' = 1
            /\ UNCHANGED <<bpc, bresult>>
       ELSE /\ bpc' = "done"
            /\ bresult' = "returned"
            /\ UNCHANGED <<bphase, bidx>>
    /\ UNCHANGED <<bop, bqueue, bdone, bfailed, braisedAt>>
    /\ UNCHANGED notBatch

\* the caller goes on; the record of the batch is dropped
batch_return ==
    /\ bpc = "done"
    /\ bop' = "none"
    /\ bphase' = "none"
    /\ bqueue' = <<>>
    /\ bidx' = 0
    /\ bdone' = {}
    /\ bfailed' = {}
    /\ bpc' = "idle"
    /\ bresult' = "none"
    /\ braisedAt' = 0
    /\ UNCHANGED notBatch

\* ------------------------------------------------------------------------
\* Role scanners (models/group.py and models/protocol.py update_from_page)
\* ------------------------------------------------------------------------

\* A line of a page, as the scanners see it: its shape ("blank"; "rule", the
\* line "---"; "stars", a non-blank line without a word character such as
\* "***"; "header", a line starting with "#"; "word", any other line), the
\* keyword set its first word belongs to ("none" without a first word,
\* "other" outside every set), the user ids of its mentions in order, and the
\* short names after its last colon.  Users and names are numbered in their
\* sort order.
Line(shape, fw, users, names) ==
    [shape |-> shape, fw |-> fw, users |-> users, names |-> names]

LBlank == Line("blank", "none", <<>>, <<>>)
LRule == Line("rule", "none", <<>>, <<>>)
LStars == Line("stars", "none", <<>>, <<>>)

\* organisation.coordination_person_keywords, delegate_person_keywords,
\* member_person_keywords: the role lists of a Group
GroupRoles == {"coordination", "delegate", "members"}
\* organisation.moderation_person_keywords, protocol_person_keywords,
\* participant_person_keywords: the role lists of a Protocol
ProtocolRoles == {"moderated_by", "protocol_by", "participants"}
\* organisation.group_shortname_keywords
ShortNameKeyword == "short"

RolesOf(kind) == IF kind = "group" THEN GroupRoles ELSE ProtocolRoles

\* sorted(s)
Sorted(s) == SortSeq(s, LAMBDA a, b : a < b)

\* sorted(set(s) - set(t) - set(u))
RECURSIVE SortedSet(_)
SortedSet(S) ==
    IF S = {} THEN <<>>
    ELSE LET m == CHOOSE x \in S : \A y \in S : x <= y
         IN <<m>> \o SortedSet(S \ {m})

\* sorted(s): nobody is taken out
SortedKeepAll(s, t, u) == Sorted(s)

SortedWithout(s, t, u) == SortedSet(SeqRange(s) \ (SeqRange(t) \cup SeqRange(u)))

\* no value: an attribute that is not in the object's __dict__
Unset == [val |-> <<0>>]

\* Group(page_id=...) and Protocol(page_id=..., date="") as parse_content
\* builds them
NewGroup ==
    [name |-> "", parent_group |-> "", emoji |-> "", coordination |-> <<>>,
     delegate |-> <<>>, members |-> <<>>, short_names |-> <<>>]

NewProtocol ==
    [date |-> "", group_id |-> "", moderated_by |-> <<>>, protocol_by |-> <<>>,
     participants |-> <<>>]

\* the loop body of Group.update_from_page with the role switched only after
\* the mentions of the line are harvested
group_line_late_switch(e, attr, l) ==
    IF l.fw = "none" THEN [ent |-> e, attr |-> attr]
    ELSE IF l.fw = ShortNameKeyword
    THEN [ent |-> [e EXCEPT !.short_names = @ \o Sorted(l.names)], attr |-> attr]
    ELSE LET a == IF l.fw \in GroupRoles THEN l.fw ELSE attr IN
         IF l.users # <<>> /\ attr # ""
         THEN [ent |-> [e EXCEPT ![attr] = Sorted(@ \o l.users)], attr |-> a]
         ELSE IF l.fw \notin GroupRoles
         THEN [ent |-> e, attr |-> ""]
         ELSE [ent |-> e, attr |-> a]

\* the body of the loop of Group.update_from_page for one line: the entity and
\* the active role after the line
group_line(e, attr, l) ==
    IF l.fw = "none" THEN [ent |-> e, attr |-> attr]
    ELSE IF l.fw = ShortNameKeyword
    THEN [ent |-> [e EXCEPT !.short_names = @ \o Sorted(l.names)], attr |-> attr]
    ELSE LET a == IF l.fw \in GroupRoles THEN l.fw ELSE attr IN
         IF l.users # <<>> /\ a # ""
         THEN [ent |-> [e EXCEPT ![a] = Sorted(@ \o l.users)], attr |-> a]
         ELSE IF l.fw \notin GroupRoles
         THEN [ent |-> e, attr |-> ""]
         ELSE [ent |-> e, attr |-> a]

\* the body of the loop of Protocol.update_from_page for one line that is
\* neither "---" nor a header
protocol_line(e, attr, l) ==
    IF l.fw = "none" THEN [ent |-> e, attr |-> attr]
    ELSE LET a == IF l.fw \in ProtocolRoles THEN l.fw ELSE attr IN
         IF l.users # <<>> /\ a # ""
         THEN [ent |-> [e EXCEPT ![a] = Sorted(@ \o l.users)], attr |-> a]
         ELSE IF l.fw \notin ProtocolRoles
         THEN [ent |-> e, attr |-> ""]
         ELSE [ent |-> e, attr |-> a]

\* the lines pages are written with
GroupLines ==
    {LBlank, LRule, LStars,
     Line("header", "other", <<>>, <<>>),
     Line("word", "coordination", <<>>, <<>>),
     Line("word", "coordination", <<1>>, <<>>),
     Line("word", "members", <<2, 1>>, <<>>),
     Line("word", ShortNameKeyword, <<>>, <<2, 1>>),
     Line("word", ShortNameKeyword, <<1>>, <<2>>),
     Line("word", "other", <<>>, <<>>),
     Line("word", "other", <<2>>, <<>>)}

ProtocolLines ==
    {LBlank, LRule, LStars,
     Line("header", "other", <<>>, <<>>),
     Line("header", "moderated_by", <<1>>, <<>>),
     Line("word", "moderated_by", <<>>, <<>>),
     Line("word", "moderated_by", <<1>>, <<>>),
     Line("word", "participants", <<2, 1>>, <<>>),
     Line("word", ShortNameKeyword, <<>>, <<2, 1>>),
     Line("word", "other", <<>>, <<>>),
     Line("word", "other", <<2>>, <<>>)}

\* the pages: the content, the valid group names of the path (own name
\* first) and, for a protocol, whether the title starts with a date
PathNames == {<<>>, <<"AG One">>, <<"UG Two", "AG One">>}

GroupPages ==
    [lines : UNION {[1..n -> GroupLines] : n \in 0..MaxLines},
     names : PathNames,
     dated : {FALSE}]

ProtocolPages ==
    [lines : UNION {[1..n -> ProtocolLines] : n \in 0..MaxLines},
     names : PathNames,
     dated : BOOLEAN]

\* parse_content meets a page that has no stored entity yet
scan_new_page(kind, page) ==
    /\ spc = "idle"
    /\ skind = "none"
    /\ skind' = kind
    /\ spage' = page
    /\ ent' = IF kind = "group" THEN NewGroup ELSE NewProtocol
    /\ UNCHANGED <<sattr, si, sstopped, spc, sruns, sonce, sresult>>
    /\ amRead' = Unset
    /\ UNCHANGED amCache
    /\ UNCHANGED notScan

\* a group page or a protocol page is parsed for the first time
new_group_page ==
    /\ spc = "idle"
    /\ skind = "none"
    /\ \E page \in GroupPages : scan_new_page("group", page)

new_protocol_page ==
    /\ spc = "idle"
    /\ skind = "none"
    /\ \E page \in ProtocolPages : scan_new_page("protocol", page)

\* Group.update_from_page up to the loop: ValueError without content or
\* without a valid group name in the path
group_update_begin ==
    /\ spc = "idle"
    /\ skind = "group"
    /\ sruns < MaxRuns
    /\ IF spage.lines = <<>> \/ spage.names = <<>>
       THEN /\ spc' = "done"
            /\ sresult' = "raised"
            /\ UNCHANGED <<ent, sattr, si, sstopped>>
       ELSE /\ ent' = [ent EXCEPT
                          !.parent_group = IF Len(spage.names) > 1
                                           THEN spage.names[2] ELSE @,
                          !.name = spage.names[1],
                          !.emoji = "e",
                          !.coordination = <<>>,
                          !.delegate = <<>>,
                          !.members = <<>>]
            /\ sattr' = ""
            /\ si' = 1
            /\ sstopped' = FALSE
            /\ spc' = "scan"
            /\ sresult' = "none"
    /\ UNCHANGED <<skind, spage, sruns, sonce>>
    /\ amRead' = Unset
    /\ UNCHANGED amCache
    /\ UNCHANGED notScan

\* one round of the loop of Group.update_from_page
group_scan_line ==
    /\ spc = "scan"
    /\ skind = "group"
    /\ si <= Len(spage.lines)
    /\ LET r == group_line(ent, sattr, spage.lines[si]) IN
        /\ ent' = r.ent
        /\ sattr' = r.attr
    /\ si' = si + 1
    /\ UNCHANGED <<skind, spage, sstopped, spc, sruns, sonce, sresult>>
    /\ amRead' = Unset
    /\ UNCHANGED amCache
    /\ UNCHANGED notScan

\* after the loop: members without coordination and delegate, self.save()
group_update_end ==
    /\ spc = "scan"
    /\ skind = "group"
    /\ si > Len(spage.lines)
    /\ ent' = [ent EXCEPT
                  !.members = SortedWithout(ent.members, ent.coordination, ent.delegate)]
    /\ spc' = "done"
    /\ sresult' = "saved"
    /\ UNCHANGED <<skind, spage, sattr, si, sstopped, sruns, sonce>>
    /\ amRead' = Unset
    /\ UNCHANGED amCache
    /\ UNCHANGED notScan

\* Protocol.update_from_page up to the loop: ValueError without content; the
\* date is the first word of a dated title; the group is looked up by the path
protocol_update_begin ==
    /\ spc = "idle"
    /\ skind = "protocol"
    /\ sruns < MaxRuns
    /\ IF spage.lines = <<>>
       THEN /\ spc' = "done"
            /\ sresult' = "raised"
            /\ UNCHANGED <<ent, sattr, si, sstopped>>
       ELSE /\ ent' = [ent EXCEPT
                          !.date = IF spage.dated THEN "2024-11-07" ELSE @,
                          !.group_id = IF spage.names # <<>> THEN spage.names[1] ELSE @,
                          !.moderated_by = <<>>,
                          !.protocol_by = <<>>,
                          !.participants = <<>>]
            /\ sattr' = ""
            /\ si' = 1
            /\ sstopped' = FALSE
            /\ spc' = "scan"
            /\ sresult' = "none"
    /\ UNCHANGED <<skind, spage, sruns, sonce>>
    /\ amRead' = Unset
    /\ UNCHANGED amCache
    /\ UNCHANGED notScan

\* the loop of Protocol.update_from_page without its break
protocol_scan_line_no_break ==
    /\ spc = "scan"
    /\ skind = "protocol"
    /\ ~sstopped
    /\ si <= Len(spage.lines)
    /\ LET r == protocol_line(ent, sattr, spage.lines[si]) IN
        /\ ent' = r.ent
        /\ sattr' = r.attr
    /\ si' = si + 1
    /\ UNCHANGED <<skind, spage, sstopped, spc, sruns, sonce, sresult>>
    /\ amRead' = Unset
    /\ UNCHANGED amCache
    /\ UNCHANGED notScan

\* one round of the loop of Protocol.update_from_page: "---" or a header
\* ends the loop
protocol_scan_line ==
    /\ spc = "scan"
    /\ skind = "protocol"
    /\ ~sstopped
    /\ si <= Len(spage.lines)
    /\ IF spage.lines[si].shape \in {"rule", "header"}
       THEN /\ sstopped' = TRUE
            /\ UNCHANGED <<ent, sattr>>
       ELSE /\ LET r == protocol_line(ent, sattr, spage.lines[si]) IN
                /\ ent' = r.ent
                /\ sattr' = r.attr
            /\ UNCHANGED sstopped
    /\ si' = si + 1
    /\ UNCHANGED <<skind, spage, spc, sruns, sonce, sresult>>
    /\ amRead' = Unset
    /\ UNCHANGED amCache
    /\ UNCHANGED notScan

\* after the loop: participants without moderators and protocol writers; the
\* try block that follows is the decision specification
protocol_update_end ==
    /\ spc = "scan"
    /\ skind = "protocol"
    /\ sstopped \/ si > Len(spage.lines)
    /\ ent' = [ent EXCEPT
                  !.participants =
                      SortedWithout(ent.participants, ent.moderated_by, ent.protocol_by)]
    /\ spc' = "done"
    /\ sresult' = "saved"
    /\ UNCHANGED <<skind, spage, sattr, si, sstopped, sruns, sonce>>
    /\ amRead' = Unset
    /\ UNCHANGED amCache
    /\ UNCHANGED notScan

\* update_from_page is over; the entity of the first run on the page is kept
\* for comparison
scan_return ==
    /\ spc = "done"
    /\ spc' = "idle"
    /\ sruns' = sruns + 1
    /\ sonce' = IF sruns = 0 THEN ent ELSE sonce
    /\ sattr' = ""
    /\ si' = 0
    /\ sstopped' = FALSE
    /\ UNCHANGED <<skind, spage, ent, sresult>>
    /\ amRead' = Unset
    /\ UNCHANGED amCache
    /\ UNCHANGED notScan

\* delete_all_parsed_data: the entity is gone
scan_reset ==
    /\ spc = "idle"
    /\ skind # "none"
    /\ sruns > 0
    /\ skind' = "none"
    /\ spage' = <<>>
    /\ ent' = <<>>
    /\ sruns' = 0
    /\ sonce' = <<>>
    /\ sresult' = "none"
    /\ amCache' = Unset
    /\ amRead' = Unset
    /\ UNCHANGED <<sattr, si, sstopped, spc>>
    /\ UNCHANGED notScan

\* the group pages whose moves are followed
MovablePages ==
    [lines : UNION {[1..n -> {Line("word", "coordination", <<1>>, <<>>),
                              Line("word", ShortNameKeyword, <<>>, <<2, 1>>)}] :
                        n \in 1..2},
     names : PathNames,
     dated : {FALSE}]

\* such a group page is parsed for the first time
new_movable_page ==
    /\ spc = "idle"
    /\ skind = "none"
    /\ \E page \in MovablePages : scan_new_page("group", page)

\* between two parses the page of a group is moved in the collective: the
\* next parse loads the stored Group and meets another path
page_moved ==
    /\ spc = "idle"
    /\ skind = "group"
    /\ sruns > 0
    /\ \E names \in PathNames \ {spage.names} :
           spage' = [spage EXCEPT !.names = names]
    /\ UNCHANGED <<skind, ent, sattr, si, sstopped, spc, sruns, sonce, sresult>>
    /\ amRead' = Unset
    /\ UNCHANGED amCache
    /\ UNCHANGED notScan

\* a read of Group.all_members between two calls: a cached_property computes
\* sorted(set(coordination + delegate + members)) on the first read of the
\* object and returns the stored value on every later read
all_members_read ==
    /\ spc = "idle"
    /\ skind = "group"
    /\ LET v == IF amCache = Unset
                THEN [val |-> SortedSet(SeqRange(ent.coordination)
                                        \cup SeqRange(ent.delegate)
                                        \cup SeqRange(ent.members))]
                ELSE amCache
       IN /\ amCache' = v
          /\ amRead' = v
    /\ UNCHANGED <<skind, spage, ent, sattr, si, sstopped, spc, sruns, sonce, sresult>>
    /\ UNCHANGED notScan

\* ------------------------------------------------------------------------
\* The entity cache: get, save, delete, clear_cache, set_cache_size
\* ------------------------------------------------------------------------

\* the classes whose objects share the cache
Classes == {"Group", "Protocol"}

\* isinstance(obj, cls) for an object whose class is c
IsInstance(c, cls) == c = cls

\* build_id of the Group and the Protocol of page 1
BuildId(cls) == IF cls = "Group" THEN "Group:1" ELSE "Protocol:1"

\* objects at a time: one per cached document and the one the caller holds
CacheHandles == 1..(Cardinality(DocIds) + 1)
NoObj == 0
NoId == ""

\* a handle no object stands behind
Dead == [id |-> NoId, rev |-> 0, cls |-> ""]

\* the record of a call: its name, the id it worked on, the class get was
\* called on, the object it was called on or found in the cache and the class
\* of that object, the db.get calls it made, the object it returned, whether
\* it returned normally, and the entries popitem removed
Call(op, arg, cls, obj, objcls, reads, ret, ok, popped) ==
    [op |-> op, arg |-> arg, cls |-> cls, obj |-> obj, objcls |-> objcls,
     reads |-> reads, ret |-> ret, ok |-> ok, popped |-> popped]

NoCall == Call("none", NoId, "", NoObj, "", 0, NoObj, TRUE, 0)

\* the cached object of an id (NoObj: none), _instance_cache.get(doc_id)
Entry(c, o, id) ==
    IF \E i \in 1..Len(c) : o[c[i]].id = id
    THEN c[CHOOSE i \in 1..Len(c) : o[c[i]].id = id]
    ELSE NoObj

\* a cache that is never trimmed
Trim_none(c, max) == c

\* while len(_instance_cache) > _cache_max_size: popitem(last=False)
Trim(c, max) == LastN(c, max)

\* a lookup that leaves the order of the entries alone
kcache_get_without_move(c, o, id) == c

\* _cache_get: the entry of the id, which becomes the most recently used one
kcache_get(c, o, id) ==
    IF id = NoId \/ Entry(c, o, id) = NoObj THEN c
    ELSE Append(SeqFilterOut(c, {Entry(c, o, id)}), Entry(c, o, id))

\* _cache_add before the trimming: nothing without an id; else the instance
\* takes the entry of its id and becomes the most recently used one
Placed(c, o, h) ==
    IF o[h].id = NoId THEN c
    ELSE Append(SeqFilterOut(c, {Entry(c, o, o[h].id)}), h)

\* _cache_add
kcache_add(c, o, h, max) ==
    IF o[h].id = NoId THEN c ELSE Trim(Placed(c, o, h), max)

\* an invalidation that pops nothing
kcache_invalidate_none(c, o, id) == c

\* _cache_invalidate: _instance_cache.pop(doc_id, None)
kcache_invalidate(c, o, id) ==
    IF id = NoId THEN c ELSE SeqFilterOut(c, {Entry(c, o, id)})

\* a test that never takes the cached instance
Hit_never(o, cached, cls) == FALSE

\* if cached and isinstance(cached, cls)
Hit(o, cached, cls) == cached # NoObj /\ IsInstance(o[cached].cls, cls)

\* a use of the entry of an id: _cache_get found it (move_to_end) or
\* _cache_add put it in
Touched(u, id) == Append(SeqFilterOut(u, {id}), id)

\* the uses of the ids that cache c still holds
Tracked(u, c, o) == SeqFilterOut(u, SeqRange(u) \ {o[h].id : h \in SeqRange(c)})

\* the caller keeps the object of its last call and drops every other object
\* the cache does not hold
Kept(o, c, keep) ==
    [h \in CacheHandles |-> IF h \in SeqRange(c) \cup keep THEN o[h] ELSE Dead]

\* the handle a new object gets: the first one outside the cache (the caller
\* drops the object it held)
NewHandle ==
    CHOOSE h \in CacheHandles \ SeqRange(kcache) :
        \A g \in CacheHandles \ SeqRange(kcache) : h <= g

\* the caller constructs an entity, Group(page_id=1) or Protocol(page_id=1):
\* no id, no revision
new_entity(cls) ==
    /\ UNCHANGED notCache
    /\ kobj' = Kept([kobj EXCEPT ![NewHandle] = [id |-> NoId, rev |-> 0, cls |-> cls]],
                    kcache, {NewHandle})
    /\ kcall' = Call("new", NoId, "", NewHandle, "", 0, NoObj, TRUE, 0)
    /\ UNCHANGED <<kstore, kcache, kmax, kuse>>

\* db.save(doc) is accepted when the doc's _rev is the stored one, or when the
\* document does not exist and the doc carries no _rev; otherwise Conflict.
KAccepts(id, rev) ==
    IF kstore[id].present THEN rev = kstore[id].rev ELSE rev = 0

\* the revisions the store has handed out
Revisions == kstore["Group:1"].rev + kstore["Protocol:1"].rev

\* a save that gives up at the first Conflict
save_without_retry(h, fail) ==
    /\ UNCHANGED notCache
    /\ kobj[h] # Dead
    /\ LET id == IF kobj[h].id = NoId THEN BuildId(kobj[h].cls) ELSE kobj[h].id
           body == kobj[h].rev
           new == kstore[id].rev + 1
           named == [kobj EXCEPT ![h].id = id]
           done == [kobj EXCEPT ![h] = [id |-> id, rev |-> new, cls |-> @.cls]]
           added == kcache_add(kcache, done, h, kmax)
       IN  /\ Revisions < MaxCacheWrites
           /\ IF fail = 1
              THEN \* the first db.save raises something other than Conflict
                   /\ kobj' = Kept(named, kcache, {h})
                   /\ kcall' = Call("save", id, "", h, "", 0, NoObj, FALSE, 0)
                   /\ UNCHANGED <<kstore, kcache, kuse>>
              ELSE IF KAccepts(id, kobj[h].rev)
              THEN \* accepted at once, or after Conflict, db.get and a second
                   \* db.save with the fetched _rev; then _cache_add(self)
                   /\ kstore' = [kstore EXCEPT ![id] =
                                   [present |-> TRUE, rev |-> new, bodyRev |-> body]]
                   /\ kobj' = Kept(done, added, {h})
                   /\ kcache' = added
                   /\ kuse' = Tracked(Touched(kuse, id), added, done)
                   /\ kcall' = Call("save", id, "", h, "",
                                    IF KAccepts(id, kobj[h].rev) THEN 0 ELSE 1,
                                    NoObj, TRUE,
                                    Len(Placed(kcache, done, h)) - Len(added))
              ELSE \* Conflict, then db.get raises (NotFound for a deleted
                   \* document) or the second db.save raises
                   /\ kobj' = Kept(IF kstore[id].present /\ fail = 3
                                   THEN [named EXCEPT ![h].rev = kstore[id].rev]
                                   ELSE named, kcache, {h})
                   /\ kcall' = Call("save", id, "", h, "", 1, NoObj, FALSE, 0)
                   /\ UNCHANGED <<kstore, kcache, kuse>>
    /\ UNCHANGED kmax

\* CouchDBModel.save, the whole call.  fail: 0 the store answers every
\* request, 1 the first db.save fails, 2 the db.get after a Conflict fails,
\* 3 the second db.save fails.
save(h, fail) ==
    /\ UNCHANGED notCache
    /\ kobj[h] # Dead
    /\ LET id == IF kobj[h].id = NoId THEN BuildId(kobj[h].cls) ELSE kobj[h].id
           body == kobj[h].rev
           new == kstore[id].rev + 1
           named == [kobj EXCEPT ![h].id = id]
           done == [kobj EXCEPT ![h] = [id |-> id, rev |-> new, cls |-> @.cls]]
           added == kcache_add(kcache, done, h, kmax)
       IN  /\ Revisions < MaxCacheWrites
           /\ IF fail = 1
              THEN \* the first db.save raises something other than Conflict
                   /\ kobj' = Kept(named, kcache, {h})
                   /\ kcall' = Call("save", id, "", h, "", 0, NoObj, FALSE, 0)
                   /\ UNCHANGED <<kstore, kcache, kuse>>
              ELSE IF KAccepts(id, kobj[h].rev) \/ (kstore[id].present /\ fail = 0)
              THEN \* accepted at once, or after Conflict, db.get and a second
                   \* db.save with the fetched _rev; then _cache_add(self)
                   /\ kstore' = [kstore EXCEPT ![id] =
                                   [present |-> TRUE, rev |-> new, bodyRev |-> body]]
                   /\ kobj' = Kept(done, added, {h})
                   /\ kcache' = added
                   /\ kuse' = Tracked(Touched(kuse, id), added, done)
                   /\ kcall' = Call("save", id, "", h, "",
                                    IF KAccepts(id, kobj[h].rev) THEN 0 ELSE 1,
                                    NoObj, TRUE,
                                    Len(Placed(kcache, done, h)) - Len(added))
              ELSE \* Conflict, then db.get raises (NotFound for a deleted
                   \* document) or the second db.save raises
                   /\ kobj' = Kept(IF kstore[id].present /\ fail = 3
                                   THEN [named EXCEPT ![h].rev = kstore[id].rev]
                                   ELSE named, kcache, {h})
                   /\ kcall' = Call("save", id, "", h, "", 1, NoObj, FALSE, 0)
                   /\ UNCHANGED <<kstore, kcache, kuse>>
    /\ UNCHANGED kmax

\* CouchDBModel.delete, the whole call: ValueError without an id; db.delete
\* raises when the store is down or the document is not there; then
\* _cache_invalidate(self.id)
delete(h, up) ==
    /\ UNCHANGED notCache
    /\ kobj[h] # Dead
    /\ IF kobj[h].id = NoId
       THEN /\ kcall' = Call("delete", NoId, "", h, "", 0, NoObj, FALSE, 0)
            /\ UNCHANGED <<kstore, kcache>>
       ELSE LET id == kobj[h].id
            IN  /\ Revisions < MaxCacheWrites
                /\ IF up /\ kstore[id].present
                   THEN /\ kstore' = [kstore EXCEPT ![id] =
                                [present |-> FALSE, rev |-> @.rev + 1, bodyRev |-> 0]]
                        /\ kcache' = kcache_invalidate(kcache, kobj, id)
                        /\ kcall' = Call("delete", id, "", h, "", 0, NoObj, TRUE, 0)
                   ELSE /\ kcall' = Call("delete", id, "", h, "", 0, NoObj, FALSE, 0)
                        /\ UNCHANGED <<kstore, kcache>>
    /\ kobj' = Kept(kobj, kcache', {h})
    /\ kuse' = Tracked(kuse, kcache', kobj)
    /\ UNCHANGED kmax

\* cls.get(doc_id), the whole call
get(cls, id, up) ==
    /\ UNCHANGED notCache
    /\ LET cached == Entry(kcache, kobj, id)
           was == IF cached = NoObj THEN "" ELSE kobj[cached].cls
           looked == kcache_get(kcache, kobj, id)
       IN  IF Hit(kobj, cached, cls)
           THEN \* return cached
                /\ kcache' = looked
                /\ kcall' = Call("get", id, cls, cached, was, 0, cached, TRUE, 0)
                /\ kobj' = Kept(kobj, looked, {})
                /\ kuse' = Touched(kuse, id)
           ELSE IF up /\ kstore[id].present
           THEN \* doc = db.get(doc_id); inst = cls(**doc); _cache_add(inst):
                \* a new object, its rev the "rev" field of the document body
                LET h == NewHandle
                    made == [kobj EXCEPT ![h] =
                               [id |-> id, rev |-> kstore[id].bodyRev, cls |-> cls]]
                    added == kcache_add(looked, made, h, kmax)
                IN  /\ kobj' = Kept(made, added, {h})
                    /\ kcache' = added
                    /\ kuse' = Tracked(Touched(kuse, id), added, made)
                    /\ kcall' = Call("get", id, cls, cached, was, 1, h, TRUE,
                                     Len(Placed(looked, made, h)) - Len(added))
           ELSE \* db.get raises: the store is down or has no such document
                /\ kcache' = looked
                /\ kcall' = Call("get", id, cls, cached, was, 1, NoObj, FALSE, 0)
                /\ kobj' = Kept(kobj, looked, {})
                /\ kuse' = IF cached = NoObj THEN kuse ELSE Touched(kuse, id)
    /\ UNCHANGED <<kstore, kmax>>

\* CollectivePage.delete of page 1 as the entity cache sees it: db.delete(doc_id)
\* for every document the _find by page_id gave, a failure logged and passed
\* over (the documents in failed); no cache method is called for them
page_delete_cascade(failed) ==
    /\ UNCHANGED notCache
    /\ LET hit == {id \in DOMAIN kstore : kstore[id].present}
           gone == hit \ failed
       IN  /\ hit # {}
           /\ failed \subseteq hit
           /\ Revisions + Cardinality(gone) <= MaxCacheWrites
           /\ kstore' = [id \in DOMAIN kstore |->
                           IF id \in gone
                           THEN [present |-> FALSE, rev |-> kstore[id].rev + 1,
                                 bodyRev |-> 0]
                           ELSE kstore[id]]
           /\ kcall' = Call("page_delete", NoId, "", NoObj, "", 0, NoObj, TRUE, 0)
    /\ kobj' = Kept(kobj, kcache, {})
    /\ UNCHANGED <<kcache, kmax, kuse>>

\* CouchDBModel.clear_cache()
clear_cache ==
    /\ UNCHANGED notCache
    /\ kcache' = <<>>
    /\ kcall' = Call("clear_cache", NoId, "", NoObj, "", 0, NoObj, TRUE, 0)
    /\ kobj' = Kept(kobj, <<>>, {})
    /\ kuse' = <<>>
    /\ UNCHANGED <<kstore, kmax>>

\* the sizes callers pass: a negative one, zero, one, the default
CacheSizes == (-1..1) \cup {CacheMaxDefault}

\* CouchDBModel.set_cache_size(size): max(0, int(size)), then trim at once
set_cache_size(size) ==
    /\ UNCHANGED notCache
    /\ kmax' = IF size < 0 THEN 0 ELSE size
    /\ kcache' = Trim(kcache, kmax')
    /\ kcall' = Call("set_cache_size", NoId, "", NoObj, "", 0, NoObj, TRUE,
                     Len(kcache) - Len(kcache'))
    /\ kobj' = Kept(kobj, kcache', {})
    /\ kuse' = Tracked(kuse, kcache', kobj)
    /\ UNCHANGED kstore

\* ------------------------------------------------------------------------
\* The entity-store specification
\* ------------------------------------------------------------------------

StoreInit ==
    /\ store = [d \in DocIds |-> [present |-> FALSE, rev |-> 0, bodyRev |-> 0]]
    /\ inst = [h \in Handles |-> [id |-> DocOf(h), rev |-> 0]]
    /\ cache = <<>>
    /\ cacheMax = CacheMaxDefault
    /\ pc = "idle"
    /\ cur = 1
    /\ docRev = 0
    /\ docBody = 0
    /\ nWrites = 0
    /\ nFetches = 0
    /\ conflict1 = FALSE
    /\ conflict2 = FALSE
    /\ fetched = 0
    /\ outcome = "none"

\* ------------------------------------------------------------------------
\* Group lookup by name (models/group.py get_by_name)
\* ------------------------------------------------------------------------

\* A name or short name: the text it is in lower case (l) and whether it is
\* written with capitals (u); "Ag x" and "AG X" differ in u only
GroupNames == [l : 1..2, u : BOOLEAN] \ {[l |-> 2, u |-> TRUE]}

\* str.lower()
Lower(n) == [n EXCEPT !.u = FALSE]

\* the Group documents: the page id, the name and the short names (none, or
\* one written with capitals)
GroupDocs ==
    [id : PageIds, name : GroupNames, short_names : {<<>>, <<[l |-> 1, u |-> TRUE]>>}]

\* Group._cached_groups is None
NotLoaded == [loaded |-> FALSE, groups |-> <<>>]

\* no call of get_by_name in the last step
NoLookup == [op |-> "none", arg |-> [l |-> 0, u |-> FALSE], raised |-> FALSE, ret |-> <<>>]

\* {sn.lower() for sn in g.short_names}
LowerShortNames(g) == {Lower(g.short_names[i]) : i \in 1..Len(g.short_names)}

\* [g for g in groups if g.name.lower() == name.lower()]
ByName(groups, name) ==
    SelectSeq(groups, LAMBDA g : Lower(g.name) = Lower(name))

\* [g for g in groups if name.lower() in {sn.lower() for sn in g.short_names}]
ByShortName(groups, name) ==
    SelectSeq(groups, LAMBDA g : Lower(name) \in LowerShortNames(g))

\* a lookup that tries the short names before the names
get_by_name_short_names_first(groups, name) ==
    LET hits == IF ByShortName(groups, name) # <<>>
                THEN ByShortName(groups, name) ELSE ByName(groups, name)
    IN  IF hits = <<>> THEN [raised |-> TRUE, ret |-> <<>>]
        ELSE [raised |-> FALSE, ret |-> <<hits[1]>>]

\* the body of Group.get_by_name over the loaded list: docs[0] of the groups of
\* that name, without one docs[0] of the groups of that short name, without
\* one ValueError
get_by_name(groups, name) ==
    LET hits == IF ByName(groups, name) # <<>>
                THEN ByName(groups, name) ELSE ByShortName(groups, name)
    IN  IF hits = <<>> THEN [raised |-> TRUE, ret |-> <<>>]
        ELSE [raised |-> FALSE, ret |-> <<hits[1]>>]

\* Group.get_all(limit=1000): the Group documents, sorted by updated_at
\* descending
get_all_groups == ldocs

\* Group.save() of a parsed group: its document is the last updated one
group_saved(g) ==
    /\ ldocs' = <<g>> \o SelectSeq(ldocs, LAMBDA d : d.id # g.id)
    /\ lcall' = NoLookup
    /\ UNCHANGED lcached
    /\ UNCHANGED notLookup

\* a call Group.get_by_name(name): the first call of the process loads the
\* list of groups, every call searches the loaded list
call_get_by_name(name) ==
    /\ lcached' = IF lcached.loaded THEN lcached
                  ELSE [loaded |-> TRUE, groups |-> get_all_groups]
    /\ LET r == get_by_name(lcached'.groups, name)
       IN  lcall' = [op |-> "get_by_name", arg |-> name, raised |-> r.raised,
                     ret |-> r.ret]
    /\ UNCHANGED ldocs
    /\ UNCHANGED notLookup

\* the process ends and a new one starts: the class attribute is None again
process_restart ==
    /\ lcached.loaded
    /\ lcached' = NotLoaded
    /\ lcall' = NoLookup
    /\ UNCHANGED ldocs
    /\ UNCHANGED notLookup

\* ------------------------------------------------------------------------
\* LazyBotConfig: the configuration loaded from the configuration page
\* ------------------------------------------------------------------------

\* LazyBotConfig.__init__: retries = 3
RetriesDefault == 3
\* the retries other instances are built with
RetryArgs == {0, 1}
\* _cached is None
NoConfig == 0

\* the record of a call of get or reload: _cached when it began, the
\* load_config calls it made, whether it is over, the configuration it
\* returned (NoConfig: none), whether it raised and which attempt's error
\* (0: the RuntimeError of a reload without attempts)
CfgCall(op, before, attempts, done, ret, raised, err) ==
    [op |-> op, before |-> before, attempts |-> attempts, done |-> done,
     ret |-> ret, raised |-> raised, err |-> err]

NoCfgCall == CfgCall("none", NoConfig, 0, TRUE, NoConfig, FALSE, 0)

\* somebody edits the YAML block of the configuration page
config_edited ==
    /\ UNCHANGED notCfg
    /\ cversion < MaxCfgVersion
    /\ cversion' = cversion + 1
    /\ UNCHANGED <<ccached, cretries, cpc, cattempts, clast, ccall>>

\* LazyBotConfig(retries=r): nothing cached
new_lazy_config(r) ==
    /\ UNCHANGED notCfg
    /\ cpc = "idle"
    /\ cretries' = r
    /\ ccached' = NoConfig
    /\ ccall' = NoCfgCall
    /\ UNCHANGED <<cversion, cpc, cattempts, clast>>

\* LazyBotConfig.get, also behind every attribute read (__getattr__):
\* reload() when nothing is cached, else the cached configuration
lazy_get ==
    /\ UNCHANGED notCfg
    /\ cpc = "idle"
    /\ IF ccached = NoConfig
       THEN /\ cpc' = "loading"
            /\ cattempts' = 0
            /\ clast' = 0
            /\ ccall' = CfgCall("get", ccached, 0, FALSE, NoConfig, FALSE, 0)
       ELSE /\ ccall' = CfgCall("get", ccached, 0, TRUE, ccached, FALSE, 0)
            /\ UNCHANGED <<cpc, cattempts, clast>>
    /\ UNCHANGED <<cversion, ccached, cretries>>

\* LazyBotConfig.reload called directly: last_exc = None, the loop begins
lazy_reload ==
    /\ UNCHANGED notCfg
    /\ cpc = "idle"
    /\ cpc' = "loading"
    /\ cattempts' = 0
    /\ clast' = 0
    /\ ccall' = CfgCall("reload", ccached, 0, FALSE, NoConfig, FALSE, 0)
    /\ UNCHANGED <<cversion, ccached, cretries>>

\* a pass of the loop that drops the cached configuration when the load fails
reload_attempt_clearing ==
    /\ UNCHANGED notCfg
    /\ cpc = "loading"
    /\ cattempts < cretries
    /\ cattempts' = cattempts + 1
    /\ \E loaded \in BOOLEAN :
        IF loaded
        THEN /\ ccached' = cversion
             /\ cpc' = "idle"
             /\ ccall' = [ccall EXCEPT !.attempts = cattempts + 1, !.done = TRUE,
                                       !.ret = cversion]
             /\ UNCHANGED clast
        ELSE /\ clast' = cattempts + 1
             /\ ccall' = [ccall EXCEPT !.attempts = cattempts + 1]
             /\ ccached' = NoConfig
             /\ UNCHANGED cpc
    /\ UNCHANGED <<cversion, cretries>>

\* one pass of the loop of reload: cfg = BotConfig.load_config(); on success
\* _cached = cfg and return cfg, on any exception last_exc = exc and sleep
reload_attempt ==
    /\ UNCHANGED notCfg
    /\ cpc = "loading"
    /\ cattempts < cretries
    /\ cattempts' = cattempts + 1
    /\ \E loaded \in BOOLEAN :
        IF loaded
        THEN /\ ccached' = cversion
             /\ cpc' = "idle"
             /\ ccall' = [ccall EXCEPT !.attempts = cattempts + 1, !.done = TRUE,
                                       !.ret = cversion]
             /\ UNCHANGED clast
        ELSE /\ clast' = cattempts + 1
             /\ ccall' = [ccall EXCEPT !.attempts = cattempts + 1]
             /\ UNCHANGED <<ccached, cpc>>
    /\ UNCHANGED <<cversion, cretries>>

\* after the loop of reload: the cached configuration when there is one,
\* else raise last_exc or RuntimeError
reload_exhausted ==
    /\ UNCHANGED notCfg
    /\ cpc = "loading"
    /\ cattempts >= cretries
    /\ cpc' = "idle"
    /\ ccall' = IF ccached # NoConfig
                THEN [ccall EXCEPT !.done = TRUE, !.ret = ccached]
                ELSE [ccall EXCEPT !.done = TRUE, !.raised = TRUE, !.err = clast]
    /\ UNCHANGED <<cversion, ccached, cretries, cattempts, clast>>

CfgInit ==
    /\ cversion = 1
    /\ ccached = NoConfig
    /\ cretries = RetriesDefault
    /\ cpc = "idle"
    /\ cattempts = 0
    /\ clast = 0
    /\ ccall = NoCfgCall

\* the configuration variables while another part runs
CfgParked == CfgInit

\* ------------------------------------------------------------------------
\* Two threads of one process: one in CouchDBModel.get, one in delete
\* ------------------------------------------------------------------------

\* each method of the cache runs under _cache_lock, so it is one step; the
\* store calls between them are steps of their own

\* cls.get(doc_id) begins
get_begin(id) ==
    /\ UNCHANGED notThr
    /\ tgpc = "idle"
    /\ tcalls.get < MaxThreadCalls
    /\ tgpc' = "lookup"
    /\ tgid' = id
    /\ tcalls' = [tcalls EXCEPT !.get = @ + 1]
    /\ UNCHANGED <<tstore, tcache, tdpc, tdid>>

\* cached = cls._cache_get(doc_id); return cached when there is one
get_lookup ==
    /\ UNCHANGED notThr
    /\ tgpc = "lookup"
    /\ tgpc' = IF tgid \in tcache THEN "idle" ELSE "read"
    /\ UNCHANGED <<tstore, tcache, tgid, tdpc, tdid, tcalls>>

\* doc = db.get(doc_id); inst = cls(**doc); NotFound leaves get
get_read ==
    /\ UNCHANGED notThr
    /\ tgpc = "read"
    /\ tgpc' = IF tgid \in tstore THEN "add" ELSE "idle"
    /\ UNCHANGED <<tstore, tcache, tgid, tdpc, tdid, tcalls>>

\* cls._cache_add(inst); return inst
get_add ==
    /\ UNCHANGED notThr
    /\ tgpc = "add"
    /\ tcache' = tcache \cup {tgid}
    /\ tgpc' = "idle"
    /\ UNCHANGED <<tstore, tgid, tdpc, tdid, tcalls>>

\* self.delete() begins on an entity with that id
delete_begin(id) ==
    /\ UNCHANGED notThr
    /\ tdpc = "idle"
    /\ tcalls.delete < MaxThreadCalls
    /\ tdpc' = "delete"
    /\ tdid' = id
    /\ tcalls' = [tcalls EXCEPT !.delete = @ + 1]
    /\ UNCHANGED <<tstore, tcache, tgpc, tgid>>

\* db.delete(self.id); NotFound leaves delete before the invalidation
delete_doc ==
    /\ UNCHANGED notThr
    /\ tdpc = "delete"
    /\ tstore' = tstore \ {tdid}
    /\ tdpc' = IF tdid \in tstore THEN "invalidate" ELSE "idle"
    /\ UNCHANGED <<tcache, tgpc, tgid, tdid, tcalls>>

\* self._cache_invalidate(self.id)
delete_invalidate ==
    /\ UNCHANGED notThr
    /\ tdpc = "invalidate"
    /\ tcache' = tcache \ {tdid}
    /\ tdpc' = "idle"
    /\ UNCHANGED <<tstore, tgpc, tgid, tdid, tcalls>>

\* both documents stored, nothing cached, no call running
ThrInit ==
    /\ tstore = DocIds
    /\ tcache = {}
    /\ tgpc = "idle"
    /\ tgid = NoId
    /\ tdpc = "idle"
    /\ tdid = NoId
    /\ tcalls = [get |-> 0, delete |-> 0]

\* the thread variables while another part runs
ThrParked ==
    /\ tstore = {}
    /\ tcache = {}
    /\ tgpc = "idle"
    /\ tgid = NoId
    /\ tdpc = "idle"
    /\ tdid = NoId
    /\ tcalls = [get |-> 0, delete |-> 0]

\* ------------------------------------------------------------------------
\* The vector collections a page leaves entries in
\* ------------------------------------------------------------------------

\* the Decision documents parse_content saves for k success blocks of page p
VecDecisions(p, k) == {[type |-> "Decision", page |-> p, k |-> i] : i \in 1..k}

\* parse_content of a protocol page with n chunks and k success blocks, the
\* whole call: page.save() upserts the chunks; update_from_page deletes the
\* page's decisions with Decision.delete (document and decisions-collection
\* entry) and saves the new ones with Decision.save (document and upsert);
\* protocol.save(); protocol_collection.add(ids=[protocol.build_id()])
vec_parse_protocol(p, n, k) ==
    /\ UNCHANGED notVec
    /\ vuni' = vuni \cup {[page |-> p, i |-> i] : i \in 0..(n - 1)}
    /\ vrel' = {d \in vrel : ~(d.type = "Decision" /\ d.page = p)}
                  \cup VecDecisions(p, k) \cup {[type |-> "Protocol", page |-> p, k |-> 0]}
    /\ vdec' = {e \in vdec : e.page # p} \cup {[page |-> p, k |-> i] : i \in 1..k}
    /\ vpro' = vpro \cup {p}
    /\ vcall' = [op |-> "parse", page |-> p]

\* CollectivePage.delete of page p, the whole call: db.delete of every
\* document with that page_id (the ones in failed raise, logged), then the
\* page's chunks are fetched from the unified collection and deleted (an
\* error there is logged), then the page document
vec_page_delete(p, failed, chunksFail) ==
    /\ UNCHANGED notVec
    /\ failed \subseteq {d \in vrel : d.page = p}
    /\ vrel' = {d \in vrel : d.page # p} \cup failed
    /\ vuni' = IF chunksFail THEN vuni ELSE {c \in vuni : c.page # p}
    /\ vcall' = [op |-> "delete", page |-> p]
    /\ UNCHANGED <<vdec, vpro>>

VecInit ==
    /\ vrel = {}
    /\ vuni = {}
    /\ vdec = {}
    /\ vpro = {}
    /\ vcall = [op |-> "none", page |-> NoPageId]

\* the vector variables while another part runs
VecParked == VecInit

\* ------------------------------------------------------------------------
\* DeckReminder: reminders for due cards
\* ------------------------------------------------------------------------

\* DeckReminderConfig.remind_after_days
RemindAfterDays == 3
\* the due cards get_due_cards yields, in this order, in every run
Cards == <<"c1", "c2">>
\* no entry of the card in "cards"
NoDay == -1
\* the days that pass between two runs
RunGaps == {1, RemindAfterDays}

\* cards_processed.get(card_id, 0) is less than remind_after_days days ago
\* (without an entry the 0 is the epoch, years ago)
RemindedLately(m, c, now) == m[c] # NoDay /\ now - m[c] < RemindAfterDays

\* remind_card_due_dates begins, gap days after the run before: the document
\* is read (or built empty after NotFound), now_time = time.time()
remind_begin(gap) ==
    /\ UNCHANGED notDeck
    /\ rpc = "idle"
    /\ rday + gap <= MaxDeckDay
    /\ rday' = rday + gap
    /\ rnow' = rday + gap
    /\ rmem' = rstored
    /\ rpc' = "cards"
    /\ ri' = 0
    /\ rres' = "running"
    /\ UNCHANGED <<rstored, rsent>>

\* one pass of the loop over the due cards: continue when the card was
\* reminded lately; else send_card_reminder, whose requests.post or
\* raise_for_status can raise and end the call, and then
\* cards_processed[card_id] = now_time
remind_card ==
    /\ UNCHANGED notDeck
    /\ rpc = "cards"
    /\ ri < Len(Cards)
    /\ LET c == Cards[ri + 1] IN
        IF RemindedLately(rmem, c, rnow)
        THEN /\ ri' = ri + 1
             /\ UNCHANGED <<rmem, rsent, rpc, rres>>
        ELSE \E sent \in BOOLEAN :
             IF sent
             THEN /\ rsent' = rsent \cup {[card |-> c, day |-> rnow]}
                  /\ rmem' = [rmem EXCEPT ![c] = rnow]
                  /\ ri' = ri + 1
                  /\ UNCHANGED <<rpc, rres>>
             ELSE /\ rpc' = "idle"
                  /\ rres' = "raised"
                  /\ UNCHANGED <<rmem, rsent, ri>>
    /\ UNCHANGED <<rday, rnow, rstored>>

\* after the loop: entries older than 30 days are dropped (none within
\* MaxDeckDay days) and self.couchdb.save(self.events)
remind_save ==
    /\ UNCHANGED notDeck
    /\ rpc = "cards"
    /\ ri = Len(Cards)
    /\ rstored' = rmem
    /\ rpc' = "idle"
    /\ rres' = "saved"
    /\ UNCHANGED <<rday, rnow, rmem, ri, rsent>>

DeckInit ==
    /\ rday = 0
    /\ rstored = [c \in SeqRange(Cards) |-> NoDay]
    /\ rmem = [c \in SeqRange(Cards) |-> NoDay]
    /\ rpc = "idle"
    /\ ri = 0
    /\ rnow = 0
    /\ rsent = {}
    /\ rres = "none"

\* the deck variables while another part runs
DeckParked == DeckInit

\* the entity-store variables while another part runs
StoreParked ==
    /\ store = <<>>
    /\ inst = <<>>
    /\ cache = <<>>
    /\ cacheMax = CacheMaxDefault
    /\ pc = "idle"
    /\ cur = 0
    /\ docRev = 0
    /\ docBody = 0
    /\ nWrites = 0
    /\ nFetches = 0
    /\ conflict1 = FALSE
    /\ conflict2 = FALSE
    /\ fetched = 0
    /\ outcome = "none"

\* the page variables while another part runs
PageParked ==
    /\ docs = {}
    /\ chunks = {}
    /\ pop = "none"
    /\ ppc = "idle"
    /\ pcur = 0
    /\ found = {}
    /\ attempted = {}
    /\ failedSub = FALSE
    /\ chunkTried = FALSE
    /\ pageStored = FALSE
    /\ saveN = 0
    /\ saveG = NoGroupId
    /\ saveI = 0
    /\ presult = "none"
    /\ raisedAt = "none"

\* the decision variables while another part runs
DecParked ==
    /\ decs = {}
    /\ dcontent = <<>>
    /\ dtitleOK = FALSE
    /\ ddate = "none"
    /\ dvia = "none"
    /\ dpc = "idle"
    /\ dtodo = {}
    /\ dblocks = <<>>
    /\ dsaved = <<>>
    /\ dbefore = {}
    /\ dresult = "none"
    /\ protSaved = FALSE
    /\ dgroup = NoGroupId
    /\ ddays = 0
    /\ dmins = 0
    /\ dnotified = 0

\* the batch variables while another part runs
BatchParked ==
    /\ bop = "none"
    /\ bphase = "none"
    /\ bqueue = <<>>
    /\ bidx = 0
    /\ bdone = {}
    /\ bfailed = {}
    /\ bpc = "idle"
    /\ bresult = "none"
    /\ braisedAt = 0

\* the scanner variables while another part runs
ScanParked ==
    /\ skind = "none"
    /\ spage = <<>>
    /\ ent = <<>>
    /\ sattr = ""
    /\ si = 0
    /\ sstopped = FALSE
    /\ spc = "idle"
    /\ sruns = 0
    /\ sonce = <<>>
    /\ sresult = "none"
    /\ amCache = Unset
    /\ amRead = Unset

\* the entity-cache variables while another part runs
CacheParked ==
    /\ kstore = <<>>
    /\ kobj = <<>>
    /\ kcache = <<>>
    /\ kmax = CacheMaxDefault
    /\ kcall = NoCall
    /\ kuse = <<>>

\* the lookup variables while another part runs, and of a process that has
\* not looked a group up yet, over a store without groups
LookupParked ==
    /\ ldocs = <<>>
    /\ lcached = NotLoaded
    /\ lcall = NoLookup

Init == StoreInit /\ PageParked /\ DecParked /\ BatchParked /\ ScanParked /\ CacheParked /\ LookupParked /\ CfgParked /\ ThrParked /\ VecParked /\ DeckParked

Next ==
    \/ \E h \in Handles : save_begin(h)
    \/ save_write
    \/ save_refetch
    \/ save_retry
    \/ \E id \in DocIds : external_write(id)
    \/ \E id \in DocIds : external_delete(id)

Spec == Init /\ [][Next]_vars

\* ------------------------------------------------------------------------
\* The page specification
\* ------------------------------------------------------------------------

PageInit ==
    /\ docs = {}
    /\ chunks = {}
    /\ pop = "none"
    /\ ppc = "idle"
    /\ pcur = NoPageId
    /\ found = {}
    /\ attempted = {}
    /\ failedSub = FALSE
    /\ chunkTried = FALSE
    /\ pageStored = FALSE
    /\ saveN = 0
    /\ saveG = NoGroupId
    /\ saveI = 0
    /\ presult = "none"
    /\ raisedAt = "none"

InitPage == PageInit /\ StoreParked /\ DecParked /\ BatchParked /\ ScanParked /\ CacheParked /\ LookupParked /\ CfgParked /\ ThrParked /\ VecParked /\ DeckParked

NextPage ==
    \/ \E d \in RelatedDocs : entity_save(d)
    \/ \E p \in PageIds \cup {NoPageId}, n \in 0..MaxChunks :
        page_save_begin(p, n, FolderGroup(p))
    \/ page_save_doc
    \/ page_save_upsert
    \/ \E p \in PageIds \cup {NoPageId} : page_delete_begin(p)
    \/ page_delete_find
    \/ page_delete_related
    \/ page_delete_chunks
    \/ page_delete_page
    \/ \E p \in PageIds \cup {NoPageId} : protocol_delete_begin(p)
    \/ protocol_delete_decision
    \/ protocol_delete_doc
    \/ page_return

SpecPage == InitPage /\ [][NextPage]_vars

\* ------------------------------------------------------------------------
\* The page save specification: saves with every outcome of the group
\* resolution, and deletes, of pages without related entities
\* ------------------------------------------------------------------------

NextSave ==
    \/ \E p \in PageIds \cup {NoPageId}, n \in 0..MaxChunks :
        \E g \in ResolvedGroups(p) : page_save_begin(p, n, g)
    \/ page_save_doc
    \/ page_save_upsert
    \/ \E p \in PageIds \cup {NoPageId} : page_delete_begin(p)
    \/ page_delete_find
    \/ page_delete_chunks
    \/ page_delete_page
    \/ page_return

SpecSave == InitPage /\ [][NextSave]_vars

\* ------------------------------------------------------------------------
\* The decision specification
\* ------------------------------------------------------------------------

DecInit ==
    /\ decs = {OtherDecision}
    /\ dcontent = <<>>
    /\ dtitleOK = FALSE
    /\ ddate = "none"
    /\ dvia = "none"
    /\ dpc = "idle"
    /\ dtodo = {}
    /\ dblocks = <<>>
    /\ dsaved = <<>>
    /\ dbefore = {}
    /\ dresult = "none"
    /\ protSaved = FALSE
    /\ dgroup = NoGroupId
    /\ ddays = 0
    /\ dmins = 0
    /\ dnotified = 0

InitDec == DecInit /\ StoreParked /\ PageParked /\ BatchParked /\ ScanParked /\ CacheParked /\ LookupParked /\ CfgParked /\ ThrParked /\ VecParked /\ DeckParked

NextDec ==
    \/ call_extract_decisions
    \/ call_update_from_page
    \/ extract_delete
    \/ extract_findall
    \/ extract_block
    \/ extract_return
    \/ update_from_page_end
    \/ dec_return

SpecDec == InitDec /\ [][NextDec]_vars

\* ------------------------------------------------------------------------
\* The protocol update specification: update_from_page on pages of every
\* age and modification time, with every outcome of the group resolution
\* ------------------------------------------------------------------------

NextUpdate ==
    \/ call_update_from_any_page
    \/ extract_delete
    \/ extract_findall
    \/ extract_block
    \/ extract_return
    \/ update_from_page_end
    \/ dec_return

SpecUpdate == InitDec /\ [][NextUpdate]_vars

\* ------------------------------------------------------------------------
\* The batch specification
\* ------------------------------------------------------------------------

InitBatch == BatchParked /\ StoreParked /\ PageParked /\ DecParked /\ ScanParked /\ CacheParked /\ LookupParked /\ CfgParked /\ ThrParked /\ VecParked /\ DeckParked

NextBatch ==
    \/ \E q \in Batches : parse_pages(q)
    \/ parse_pages_page
    \/ \E q \in Batches, f \in BOOLEAN : process_pages(q, f)
    \/ process_pages_save
    \/ process_pages_parse
    \/ batch_loop_end
    \/ batch_return

SpecBatch == InitBatch /\ [][NextBatch]_vars

\* ------------------------------------------------------------------------
\* The scanner specification
\* ------------------------------------------------------------------------

InitScan == ScanParked /\ StoreParked /\ PageParked /\ DecParked /\ BatchParked /\ CacheParked /\ LookupParked /\ CfgParked /\ ThrParked /\ VecParked /\ DeckParked

NextScan ==
    \/ new_group_page
    \/ new_protocol_page
    \/ group_update_begin
    \/ group_scan_line
    \/ group_update_end
    \/ protocol_update_begin
    \/ protocol_scan_line
    \/ protocol_update_end
    \/ scan_return
    \/ scan_reset
    \/ all_members_read

SpecScan == InitScan /\ [][NextScan]_vars

\* ------------------------------------------------------------------------
\* The group move specification: a group page is parsed, moved and parsed
\* again
\* ------------------------------------------------------------------------

NextMove ==
    \/ new_movable_page
    \/ page_moved
    \/ group_update_begin
    \/ group_scan_line
    \/ group_update_end
    \/ scan_return

SpecMove == InitScan /\ [][NextMove]_vars

\* ------------------------------------------------------------------------
\* The group lookup specification
\* ------------------------------------------------------------------------

InitLookup ==
    LookupParked /\ StoreParked /\ PageParked /\ DecParked /\ BatchParked /\ ScanParked /\ CfgParked /\ ThrParked /\ VecParked /\ DeckParked
        /\ CacheParked

NextLookup ==
    \/ \E g \in GroupDocs : group_saved(g)
    \/ \E name \in GroupNames : call_get_by_name(name)
    \/ process_restart

SpecLookup == InitLookup /\ [][NextLookup]_vars

\* ------------------------------------------------------------------------
\* The entity-cache specification
\* ------------------------------------------------------------------------

CacheInit ==
    /\ kstore = [d \in DocIds |-> [present |-> FALSE, rev |-> 0, bodyRev |-> 0]]
    /\ kobj = [h \in CacheHandles |-> Dead]
    /\ kcache = <<>>
    /\ kmax = CacheMaxDefault
    /\ kcall = NoCall
    /\ kuse = <<>>

InitCache ==
    CacheInit /\ StoreParked /\ PageParked /\ DecParked /\ BatchParked /\ ScanParked /\ LookupParked /\ CfgParked /\ ThrParked /\ VecParked /\ DeckParked

NextCache ==
    \/ \E cls \in Classes : new_entity(cls)
    \/ \E h \in CacheHandles, fail \in 0..3 : save(h, fail)
    \/ \E h \in CacheHandles, up \in BOOLEAN : delete(h, up)
    \/ \E cls \in Classes, id \in DocIds, up \in BOOLEAN : get(cls, id, up)
    \/ clear_cache
    \/ \E size \in CacheSizes : set_cache_size(size)

SpecCache == InitCache /\ [][NextCache]_vars

\* ------------------------------------------------------------------------
\* The entity cache of a process that also deletes pages
\* ------------------------------------------------------------------------

NextCascade ==
    \/ \E cls \in Classes : new_entity(cls)
    \/ \E h \in CacheHandles, fail \in 0..1 : save(h, fail)
    \/ \E h \in CacheHandles, up \in BOOLEAN : delete(h, up)
    \/ \E cls \in Classes, up \in BOOLEAN : get(cls, BuildId(cls), up)
    \/ \E failed \in SUBSET DocIds : page_delete_cascade(failed)

SpecCascade == InitCache /\ [][NextCascade]_vars

\* ------------------------------------------------------------------------
\* The two-thread specification
\* ------------------------------------------------------------------------

InitThr ==
    ThrInit /\ StoreParked /\ PageParked /\ DecParked /\ BatchParked /\ ScanParked /\ VecParked /\ DeckParked
        /\ CacheParked /\ LookupParked /\ CfgParked

NextThr ==
    \/ \E id \in DocIds : get_begin(id)
    \/ get_lookup
    \/ get_read
    \/ get_add
    \/ \E id \in DocIds : delete_begin(id)
    \/ delete_doc
    \/ delete_invalidate

SpecThr == InitThr /\ [][NextThr]_vars

\* ------------------------------------------------------------------------
\* The vector-collection specification
\* ------------------------------------------------------------------------

InitVec ==
    VecInit /\ StoreParked /\ PageParked /\ DecParked /\ BatchParked /\ ScanParked /\ DeckParked
        /\ CacheParked /\ LookupParked /\ CfgParked /\ ThrParked

NextVec ==
    \/ \E p \in PageIds, n \in 1..MaxChunks, k \in 0..NumDecisions :
          vec_parse_protocol(p, n, k)
    \/ \E p \in PageIds, failed \in SUBSET vrel, chunksFail \in BOOLEAN :
          vec_page_delete(p, failed, chunksFail)

SpecVec == InitVec /\ [][NextVec]_vars

\* ------------------------------------------------------------------------
\* The deck-reminder specification
\* ------------------------------------------------------------------------

InitDeck ==
    DeckInit /\ StoreParked /\ PageParked /\ DecParked /\ BatchParked /\ ScanParked
        /\ CacheParked /\ LookupParked /\ CfgParked /\ ThrParked /\ VecParked

NextDeck ==
    \/ \E gap \in RunGaps : remind_begin(gap)
    \/ remind_card
    \/ remind_save

SpecDeck == InitDeck /\ [][NextDeck]_vars

\* ------------------------------------------------------------------------
\* The configuration specification
\* ------------------------------------------------------------------------

InitCfg ==
    CfgInit /\ StoreParked /\ PageParked /\ DecParked /\ BatchParked /\ ScanParked /\ ThrParked /\ VecParked /\ DeckParked
        /\ CacheParked /\ LookupParked

NextCfg ==
    \/ config_edited
    \/ \E r \in RetryArgs : new_lazy_config(r)
    \/ lazy_get
    \/ lazy_reload
    \/ reload_attempt
    \/ reload_exhausted

SpecCfg == InitCfg /\ [][NextCfg]_vars

\* ------------------------------------------------------------------------
\* The eviction specification: three documents, room for two in the cache
\* ------------------------------------------------------------------------

\* the Group and the Protocol of page 1 and a Decision of that page, which an
\* earlier run stored and this process only reads
DecisionDoc == "Decision:1:x"
LruDocIds == DocIds \cup {DecisionDoc}
\* the class whose build_id gives the id
ClassOfDoc(id) ==
    IF id = DecisionDoc THEN "Decision" ELSE CHOOSE cls \in Classes : BuildId(cls) = id

\* the process has called set_cache_size with one less than the documents
LruMax == Cardinality(LruDocIds) - 1
LruSizes == {LruMax - 1, LruMax}

LruInit ==
    /\ kstore = [d \in LruDocIds |->
                   IF d = DecisionDoc
                   THEN [present |-> TRUE, rev |-> 1, bodyRev |-> 0]
                   ELSE [present |-> FALSE, rev |-> 0, bodyRev |-> 0]]
    /\ kobj = [h \in CacheHandles |-> Dead]
    /\ kcache = <<>>
    /\ kmax = LruMax
    /\ kcall = Call("set_cache_size", NoId, "", NoObj, "", 0, NoObj, TRUE, 0)
    /\ kuse = <<>>

InitLru ==
    LruInit /\ StoreParked /\ PageParked /\ DecParked /\ BatchParked /\ ScanParked /\ LookupParked /\ CfgParked /\ ThrParked /\ VecParked /\ DeckParked

NextLru ==
    \/ \E cls \in Classes : new_entity(cls)
    \/ \E h \in CacheHandles : kobj[h].cls \in Classes /\ save(h, 0)
    \/ \E h \in CacheHandles : kobj[h].cls \in Classes /\ delete(h, TRUE)
    \/ \E id \in LruDocIds, up \in BOOLEAN : get(ClassOfDoc(id), id, up)
    \/ get("Protocol", "Group:1", FALSE)
    \/ \E size \in LruSizes : set_cache_size(size)

SpecLru == InitLru /\ [][NextLru]_vars

\* ------------------------------------------------------------------------
\* C1
\* ------------------------------------------------------------------------

SaveFinished == pc = "idle" /\ outcome # "none"

\* C1: one save call re-fetches at most once and writes at most twice; a
\* conflict on the first write is followed by exactly one re-fetch, a re-fetch
\* that returns the document by exactly one retry carrying the fetched
\* revision, and a conflict on the retry ends the call with the conflict as
\* its error, the store and the cache untouched by that call.
C1_SaveRetriesOnce ==
    /\ nWrites <= 2
    /\ nFetches <= 1
    /\ (nFetches = 1 => conflict1 /\ nWrites >= 1)
    /\ (nWrites = 2 => nFetches = 1 /\ fetched # 0 /\ docRev = fetched)
    /\ (pc = "retry" => nWrites = 1 /\ nFetches = 1 /\ docRev = fetched
                        /\ inst[cur].rev = fetched)
    /\ (SaveFinished /\ conflict1 => nFetches = 1)
    /\ (SaveFinished /\ conflict1 /\ fetched # 0 => nWrites = 2)
    /\ (conflict2 => conflict1 /\ nWrites = 2)
    /\ (SaveFinished /\ conflict2 => outcome = "conflict")
    /\ (outcome = "conflict" => conflict2)

\* a save whose retry conflicted as well has ended
C1_Witness == SaveFinished /\ conflict1 /\ conflict2 /\ outcome = "conflict"

\* ------------------------------------------------------------------------
\* C2
\* ------------------------------------------------------------------------

DeleteDone == pop = "delete" /\ ppc = "done"

\* C2: while a delete of a stored page with a non-zero id still has a related
\* entity or a vector chunk of the page to remove and no sub-step has failed,
\* the page document is in the store; when such a delete has returned, no
\* document with the page's id in page_id, no chunk of the page and no page
\* document are left.
C2_CascadePageLast ==
    /\ (/\ pop = "delete" /\ pcur # NoPageId /\ pageStored /\ ~failedSub
        /\ \/ \E d \in docs : d.type # "CollectivePage" /\ d.page = pcur
           \/ \E c \in chunks : c.page_id = pcur)
            => PageDoc(pcur) \in docs
    /\ (DeleteDone /\ pcur # NoPageId /\ presult = "ok" /\ ~failedSub)
            => /\ \A d \in docs : d.page # pcur
               /\ \A c \in chunks : c.page_id # pcur

\* a delete that removed related entities and the page has returned cleanly
C2_Witness ==
    /\ DeleteDone /\ presult = "ok" /\ ~failedSub /\ pageStored
    /\ Cardinality(found) >= 2
    /\ chunkTried

\* ------------------------------------------------------------------------
\* C3
\* ------------------------------------------------------------------------

StoredFor(p) == {d \in decs : d.page = p}

\* the decisions the call has saved, without those a later save replaced
LastSaved ==
    {dsaved[i] : i \in {j \in 1..Len(dsaved) :
                           \A k \in (j + 1)..Len(dsaved) : dsaved[k].key # dsaved[j].key}}

ExtractDone == dpc = "done"

HasUnparsable(c) ==
    \E i \in 1..Len(FindBlocks(c)) : save_decision(FindBlocks(c)[i]).kind = "raise"

\* the decisions of all parsable blocks of the content
Parsable(c) ==
    {save_decision(FindBlocks(c)[i]).dec :
        i \in {j \in 1..Len(FindBlocks(c)) :
                  save_decision(FindBlocks(c)[j]).kind = "saved"}}

\* C6: a success block from which neither a title nor a body can be parsed is
\* skipped without raising: the call returns normally, the decisions of the
\* other blocks are saved, and update_from_page saves the protocol.
C6_UnparsableBlockSkipped ==
    (ExtractDone /\ HasUnparsable(dcontent) /\ ~(dtitleOK /\ ddate = "future")) =>
        /\ dresult = "returned"
        /\ \A d \in Parsable(dcontent) : \E i \in 1..Len(dsaved) : dsaved[i] = d
        /\ dvia = "update" => protSaved

\* ------------------------------------------------------------------------
\* C7
\* ------------------------------------------------------------------------

\* the steps the running loops owe a page
StepsOwed ==
    IF bop = "parse_pages" THEN {"parse", "save"}
    ELSE IF bphase = "save" THEN {"save"}
    ELSE {}

\* C7: a failed parse or save of one page never aborts the batch: when the step
\* of page i raises, the pages after i are still parsed and saved, and the batch
\* returns instead of raising.
C7_BatchNeverAborts ==
    bpc = "done" =>
        /\ bresult = "returned"
        /\ \A i \in 1..Len(bqueue) :
               i > braisedAt =>
                   \A st \in StepsOwed : [page |-> bqueue[i], step |-> st] \in bdone

\* ------------------------------------------------------------------------
\* C8
\* ------------------------------------------------------------------------

\* C8: when the page document has been written and a vector upsert then
\* fails, CollectivePage.save returns normally and the page document stays
\* in the store.
C8_UpsertFailureNotFatal ==
    (pop = "save" /\ ppc = "done" /\ failedSub)
        => presult = "ok" /\ PageDoc(pcur) \in docs

\* ------------------------------------------------------------------------
\* C9
\* ------------------------------------------------------------------------

\* C9: running update_from_page twice on the same entity against unchanged page
\* content yields the same field values as running it once.
C9_UpdateIdempotent ==
    (spc = "idle" /\ sruns >= 2 /\ sresult = "saved") => ent = sonce

\* ------------------------------------------------------------------------
\* C10
\* ------------------------------------------------------------------------

\* C10: in both scanners, a non-blank line whose first word is not a role
\* keyword and that contains no mention leaves no role active: the active role
\* is none after the line, or the scan has ended with it.
C10_NonKeywordLineResets ==
    (spc = "scan" /\ si > 1) =>
        LET l == spage.lines[si - 1] IN
        (l.shape # "blank" /\ l.fw \notin RolesOf(skind) /\ l.users = <<>>) =>
            (sattr = "" \/ sstopped)

\* ------------------------------------------------------------------------
\* C11
\* ------------------------------------------------------------------------

\* the user ids pages mention
ScanUsers == {1, 2}

\* occurrences of x in the list s
Count(s, x) == Cardinality({i \in 1..Len(s) : s[i] = x})

IsSortedSeq(s) == \A i \in 1..(Len(s) - 1) : s[i] <= s[i + 1]

\* list a of e2 is list a of e with the users added, sorted; the other role
\* lists are the same
AppendedTo(e, e2, a, users) ==
    /\ IsSortedSeq(e2[a])
    /\ \A u \in ScanUsers : Count(e2[a], u) = Count(e[a], u) + Count(users, u)
    /\ \A r \in RolesOf(skind) \ {a} : e2[r] = e[r]

\* a step of a scanner loop over a line that does not end the scan
ScanStep == spc = "scan" /\ spc' = "scan" /\ si' = si + 1 /\ ~sstopped'

\* the role that is active when the mentions of line l are harvested
ActiveAt(l) == IF l.fw \in RolesOf(skind) THEN l.fw ELSE sattr

\* a short-name keyword line of a group page
ShortLine(l) == skind = "group" /\ l.fw = ShortNameKeyword

\* C11 (amended): on every line a scanner scans, a first word from a role's
\* keyword set makes that role the active one; the mentions of the line are
\* appended to exactly the active role's list, which stays sorted, and the
\* role stays active; with no active role, and on a short-name keyword line of
\* a group page, the mentions of the line are added to no list.
C11_MentionsToActiveRole ==
    [][ScanStep =>
        LET l == spage.lines[si]
            a == ActiveAt(l)
        IN /\ l.fw \in RolesOf(skind) => sattr' = l.fw
           /\ (a # "" /\ l.users # <<>> /\ ~ShortLine(l)) =>
                  (AppendedTo(ent, ent', a, l.users) /\ sattr' = a)
           /\ (a = "" \/ l.users = <<>> \/ ShortLine(l)) =>
                  \A r \in RolesOf(skind) : ent'[r] = ent[r]
           /\ sattr' \in {a, ""}]_vars

\* a role keyword line without mentions, then a line of another first word
\* whose mention went to that role
C11_Witness ==
    /\ spc = "scan"
    /\ skind = "group"
    /\ si = 3
    /\ spage.lines[1].fw = "coordination"
    /\ spage.lines[1].users = <<>>
    /\ spage.lines[2].fw = "other"
    /\ spage.lines[2].users = <<2>>
    /\ sattr = "coordination"
    /\ ent.coordination = <<2>>
    /\ ent.members = <<>>

\* C11 as stated: the mentions of every scanned line go to the active role
C11_Original ==
    [][ScanStep =>
        LET l == spage.lines[si]
            a == ActiveAt(l)
        IN /\ l.fw \in RolesOf(skind) => sattr' = l.fw
           /\ (a # "" /\ l.users # <<>>) => AppendedTo(ent, ent', a, l.users)
           /\ (a = "" \/ l.users = <<>>) =>
                  \A r \in RolesOf(skind) : ent'[r] = ent[r]]_vars

\* ------------------------------------------------------------------------
\* C12
\* ------------------------------------------------------------------------

\* index of the first "---" or header line (past the end without one)
FirstStop(lines) ==
    LET stops == {k \in 1..Len(lines) : lines[k].shape \in {"rule", "header"}}
    IN IF stops = {} THEN Len(lines) + 1
       ELSE CHOOSE k \in stops : \A j \in stops : k <= j

\* mentions of u on the first n lines
RECURSIVE MentionsBefore(_, _, _)
MentionsBefore(lines, n, u) ==
    IF n = 0 THEN 0
    ELSE MentionsBefore(lines, n - 1, u) + Count(lines[n].users, u)

\* entries of u in the three role lists of the protocol
Listed(e, u) ==
    Count(e.moderated_by, u) + Count(e.protocol_by, u) + Count(e.participants, u)

\* C12: in Protocol.update_from_page the scan stops at the first header line
\* or "---" line: the role lists hold no mention of that line or of a later
\* line, only mentions of the lines before it.
C12_ScanStopsAtHeaderOrRule ==
    (skind = "protocol" /\ spc \in {"scan", "done"} /\ sresult # "raised") =>
        /\ \A u \in ScanUsers :
               Listed(ent, u) <= MentionsBefore(spage.lines, FirstStop(spage.lines) - 1, u)
        /\ si <= FirstStop(spage.lines) + 1

\* a finished run over a page with role keyword lines and mentions after "---"
C12_Witness ==
    /\ skind = "protocol"
    /\ spc = "done"
    /\ Len(spage.lines) = 3
    /\ spage.lines[1].fw = "moderated_by"
    /\ spage.lines[1].users = <<1>>
    /\ spage.lines[2].shape = "rule"
    /\ spage.lines[3].fw = "participants"
    /\ spage.lines[3].users = <<2, 1>>
    /\ ent.moderated_by = <<1>>
    /\ ent.participants = <<>>

\* ------------------------------------------------------------------------
\* C13
\* ------------------------------------------------------------------------

\* the step that ends the scan of update_from_page
EndStep == spc = "scan" /\ spc' = "done" /\ sresult' = "saved"

\* list s2 is the sorted duplicate-free set of the ids of s that are in
\* neither t nor u
CatchAll(s2, s, t, u) ==
    /\ IsSortedSeq(s2)
    /\ \A x \in ScanUsers : Count(s2, x) <= 1
    /\ SeqRange(s2) = SeqRange(s) \ (SeqRange(t) \cup SeqRange(u))

\* C13: after update_from_page, Group.members is the sorted duplicate-free set
\* of the ids mentioned under the members role minus those in coordination
\* and delegate, Protocol.participants the same for participants minus
\* moderated_by and protocol_by; the specific lists keep the excluded ids.
C13_CatchAllExcludesSpecific ==
    [][EndStep =>
        IF skind = "group"
        THEN /\ CatchAll(ent'.members, ent.members, ent.coordination, ent.delegate)
             /\ ent'.coordination = ent.coordination
             /\ ent'.delegate = ent.delegate
             /\ SeqRange(ent'.members)
                    \cap (SeqRange(ent'.coordination) \cup SeqRange(ent'.delegate)) = {}
        ELSE /\ CatchAll(ent'.participants, ent.participants, ent.moderated_by,
                         ent.protocol_by)
             /\ ent'.moderated_by = ent.moderated_by
             /\ ent'.protocol_by = ent.protocol_by
             /\ SeqRange(ent'.participants)
                    \cap (SeqRange(ent'.moderated_by) \cup SeqRange(ent'.protocol_by)) = {}]_vars

\* a group whose coordinator was also mentioned under the members role
C13_Witness ==
    /\ skind = "group"
    /\ spc = "done"
    /\ sresult = "saved"
    /\ \E i, j \in 1..Len(spage.lines) :
           /\ spage.lines[i].fw = "coordination" /\ spage.lines[i].users = <<1>>
           /\ i < j
           /\ spage.lines[j].fw = "members" /\ spage.lines[j].users = <<2, 1>>
    /\ ent.coordination = <<1>>
    /\ ent.members = <<2>>

\* ------------------------------------------------------------------------
\* C14
\* ------------------------------------------------------------------------

\* C14: every read of all_members, also one made after update_from_page has
\* changed the role lists of an object whose all_members was read before,
\* returns the sorted duplicate-free union of the current coordination,
\* delegate and members lists.
C14_AllMembersCurrent ==
    amRead # Unset =>
        amRead.val = SortedSet(SeqRange(ent.coordination) \cup SeqRange(ent.delegate)
                               \cup SeqRange(ent.members))

\* ------------------------------------------------------------------------
\* C15
\* ------------------------------------------------------------------------

\* the entry the cache holds for the id of the last call
EntryOfCall == Entry(kcache, kobj, kcall.arg)

C16_SaveDeleteKeepCacheCurrent ==
    /\ (kcall.op = "save" /\ kcall.ok) =>
          /\ kobj[kcall.obj].id = kcall.arg
          /\ kobj[kcall.obj].rev = kstore[kcall.arg].rev
          /\ kmax >= 1 => EntryOfCall = kcall.obj
    /\ (kcall.op = "delete" /\ kcall.ok) => EntryOfCall = NoObj

\* a save that went through a Conflict and replaced the cached instance of
\* the same document, in a cache that is full
C16_Witness ==
    /\ kcall.op = "save"
    /\ kcall.ok
    /\ kcall.reads = 1
    /\ kmax = 1
    /\ kcache = <<kcall.obj>>
    /\ kstore[kcall.arg].rev = 2

\* ------------------------------------------------------------------------
\* C17
\* ------------------------------------------------------------------------

\* C17: after every call the cache holds at most _cache_max_size entries;
\* the maximum is 500 until set_cache_size is called and never negative.
C17_CacheBounded ==
    /\ Len(kcache) <= kmax
    /\ kmax >= 0
    /\ kcall.op = "none" => kmax = CacheMaxDefault

\* a call that had to pop an entry to stay within the maximum
C17_Witness ==
    /\ kcall.popped > 0
    /\ kmax = 1
    /\ Len(kcache) = 1

\* ------------------------------------------------------------------------
\* C18
\* ------------------------------------------------------------------------

\* the stored decisions of a page
DecisionsOf(p) == {d \in docs : d.type = "Decision" /\ d.page = p}

BlockLines == {StripBlank(b) : b \in SeqRange(FindBlocks(dcontent))} \ {<<>>}

\* the body the loop of save_decision collects from the lines of a block
BodyOf(lines) ==
    ParseLines(lines, 2, [text |-> <<>>, valid_until |-> <<>>, objections |-> <<>>]).text

\* C19: every stored decision has a non-empty title, and every decision
\* save_decision has saved comes from a block of the page: with a title on the
\* block's first line it has that title and the block's body, without one it
\* has the block's body as its title and an empty body.
C19_TitleAlwaysFilled ==
    /\ \A d \in decs : d.title # <<>>
    /\ \A i \in 1..Len(dsaved) :
        /\ dsaved[i].title # <<>>
        /\ \E lines \in BlockLines :
             IF TitleOf(lines[1]) = <<>>
             THEN dsaved[i].title = BodyOf(lines) /\ dsaved[i].text = <<>>
             ELSE dsaved[i].title = TitleOf(lines[1]) /\ dsaved[i].text = BodyOf(lines)

\* a decision whose title is the body of a block without a title is stored
C19_Witness ==
    /\ dsaved # <<>>
    /\ \E d \in decs :
        /\ d.page = ProtocolPage
        /\ d.title = <<"y", " ">>
        /\ d.text = <<>>
        /\ d \in SeqRange(dsaved)

\* ------------------------------------------------------------------------
\* C20
\* ------------------------------------------------------------------------

\* the first line after the title that starts with an objections keyword
\* (beyond the last line: none)
FirstObjection(lines) ==
    LET hits == {i \in 2..Len(lines) : lines[i].tok = "text" /\ lines[i].kw = "objection"}
    IN  IF hits = {} THEN Len(lines) + 1
        ELSE CHOOSE i \in hits : \A j \in hits : i <= j

\* the non-empty lines i..last that start with no valid-until keyword, each
\* followed by a blank, in their order
RECURSIVE PlainLines(_, _, _)
PlainLines(lines, i, last) ==
    IF i > last THEN <<>>
    ELSE IF lines[i].tok = "text" /\ lines[i].kw # "valid"
         THEN clean_line(lines[i]) \o <<" ">> \o PlainLines(lines, i + 1, last)
         ELSE PlainLines(lines, i + 1, last)

\* what the last valid-until line among the lines 2..last leaves after its
\* keyword (nothing: no such line)
LastValid(lines, last) ==
    LET hits == {i \in 2..last : lines[i].tok = "text" /\ lines[i].kw = "valid"}
    IN  IF hits = {} THEN <<>>
        ELSE lines[CHOOSE i \in hits : \A j \in hits : j <= i].txt

\* C20: every decision save_decision has saved comes from a block of the
\* page such that its body (its title, when the block has none) is made of
\* the non-empty lines between the title line and the first objections line
\* that are no valid-until lines, in their order; its objections are the rest
\* of the first objections line followed by every later line; and its
\* valid-until comes from a line before the first objections line.
C20_ObjectionsTakeTheRest ==
    \A i \in 1..Len(dsaved) : \E lines \in BlockLines :
        LET fo == FirstObjection(lines)
            body == PlainLines(lines, 2, fo - 1)
        IN  /\ IF TitleOf(lines[1]) = <<>>
               THEN dsaved[i].title = body /\ dsaved[i].text = <<>>
               ELSE dsaved[i].title = TitleOf(lines[1]) /\ dsaved[i].text = body
            /\ dsaved[i].objections =
                  IF fo > Len(lines) THEN <<>>
                  ELSE lines[fo].txt \o JoinRest(lines, fo + 1)
            /\ dsaved[i].valid_until = LastValid(lines, fo - 1)

\* a saved decision whose objections hold a later valid-until line and a
\* later body line, and whose body holds the line before the objections
C20_Witness ==
    \E i \in 1..Len(dsaved) :
        /\ dsaved[i].text = <<"x", " ">>
        /\ dsaved[i].objections = <<"V:", "w", " ", "z">>
        /\ dsaved[i].valid_until = <<>>
        /\ dsaved[i] \in decs

\* ------------------------------------------------------------------------
\* C21
\* ------------------------------------------------------------------------

\* the non-empty lines 2..last that are no valid-until lines, joined by
\* single blanks with nothing before the first and nothing after the last
SpaceJoined(lines, last) ==
    LET b == PlainLines(lines, 2, last)
    IN  IF b = <<>> THEN <<>> ELSE SubSeq(b, 1, Len(b) - 1)

\* C21: every decision save_decision has saved with a body comes from a
\* block of the page whose first line, without emphasis markers and title
\* keyword, is the decision's title, and whose remaining non-metadata lines,
\* joined by single blanks with nothing added before or after, are its body.
C21_BodyJoinedBySingleSpaces ==
    \A i \in 1..Len(dsaved) :
        dsaved[i].text # <<>> =>
            \E lines \in BlockLines :
                /\ dsaved[i].title = TitleOf(lines[1])
                /\ dsaved[i].text = SpaceJoined(lines, FirstObjection(lines) - 1)

\* ------------------------------------------------------------------------
\* C22
\* ------------------------------------------------------------------------

\* the entries chunk i of n of page p may be stored as: id "<page entity
\* id>_chunk_<i>", chunk_index i, total_chunks n, page_id the numeric id and
\* original_doc_id the page entity id, whatever the group
EntriesOf(p, i, n) ==
    {[id |-> [doc |-> PageDoc(p), chunk |-> i], page_id |-> p, group_id |-> g,
      chunk_index |-> i, total_chunks |-> n, original_doc_id |-> PageDoc(p)] :
        g \in {"", "Group:1"}}

\* a save that has returned normally
SaveReturned == pop = "save" /\ ppc = "done" /\ presult = "ok"

\* C22: a page save starts with chunk 0; each of its steps leaves the vector
\* index alone or replaces exactly the entry "<page entity id>_chunk_<i>" of
\* the next chunk i < n by one with chunk_index i, total_chunks n, the numeric
\* page id and the page entity id, and moves on to i + 1; a save that has
\* returned normally has upserted the n entries 0..n-1, so a save of empty or
\* whitespace-only content (n = 0) upserts nothing.
C22_SaveUpsertsEveryChunk ==
    /\ []((pop = "save" /\ ppc = "save_doc") => saveI = 0)
    /\ [](SaveReturned =>
            /\ saveI = saveN
            /\ \A i \in 0..(saveN - 1) : \E c \in chunks : c \in EntriesOf(pcur, i, saveN))
    /\ [][pop = "save" =>
            \/ chunks' = chunks
            \/ /\ saveI < saveN
               /\ saveI' = saveI + 1
               /\ \E e \in EntriesOf(pcur, saveI, saveN) :
                      chunks' = {c \in chunks : c.id # e.id} \cup {e}]_vars

\* a save of content of two chunks has returned with both entries stored
C22_Witness ==
    /\ SaveReturned
    /\ saveN = 2
    /\ \A i \in 0..1 : \E c \in chunks : c \in EntriesOf(pcur, i, 2)

\* ------------------------------------------------------------------------
\* C23
\* ------------------------------------------------------------------------

\* the step removes the vector entry of some id
EntryRemoved == \E c \in chunks : \A c2 \in chunks' : c2.id # c.id

\* C23: no step of a page save removes a vector entry, and a save of content
\* of m chunks leaves every entry of another page and every entry of its own
\* page with chunk index m or more exactly as it was; an entry is removed
\* only by a step of a page delete.
C23_StaleChunksStay ==
    [][/\ pop = "save" =>
            /\ ~EntryRemoved
            /\ \A c \in chunks :
                  (c.original_doc_id # PageDoc(pcur) \/ c.chunk_index >= saveN)
                      => c \in chunks'
       /\ EntryRemoved => pop = "delete"]_vars

\* a save of one chunk has returned and the second entry of an earlier save
\* of two chunks of the same page is still stored
C23_Witness ==
    /\ SaveReturned
    /\ saveN = 1
    /\ \E c \in chunks :
          c.original_doc_id = PageDoc(pcur) /\ c.chunk_index = 1 /\ c.total_chunks = 2
    /\ \E c \in chunks :
          c.original_doc_id = PageDoc(pcur) /\ c.chunk_index = 0 /\ c.total_chunks = 1

\* ------------------------------------------------------------------------
\* C24
\* ------------------------------------------------------------------------

\* update_from_page is over
UpdateDone == dvia = "update" /\ dpc = "done"

\* C24: when no group could be determined for the page of a protocol,
\* update_from_page still completes without an error and has saved the
\* protocol.
C24_GroupFailureNotFatal ==
    (UpdateDone /\ dgroup = NoGroupId) => (dresult = "returned" /\ protSaved)

\* ------------------------------------------------------------------------
\* C28
\* ------------------------------------------------------------------------

\* the protocol has a date that is 0 to protocol_max_age_days days old
DateInRange == ddate # "none" /\ 0 <= ddays /\ ddays <= ProtocolMaxAgeDays

\* C28: when update_from_page is over it has called notify_updated exactly
\* once for a protocol whose date lies 0 to protocol_max_age_days days before
\* today, both ends included, and not at all for an older or a future-dated
\* protocol.
C28_NotifiedWhenRecent ==
    UpdateDone => dnotified = (IF DateInRange THEN 1 ELSE 0)

\* ------------------------------------------------------------------------
\* C29
\* ------------------------------------------------------------------------

\* C29: while the page was modified less than protocol_cooldown_minutes ago,
\* update_from_page parses nothing (it neither deletes nor saves a decision
\* nor saves the protocol) and does not call notify_updated; for a page
\* modified longer ago it calls notify_updated once.
C29_CooldownRespected ==
    /\ (dvia = "update" /\ dmins < CooldownMinutes) =>
            /\ dpc \notin {"delete", "save"}
            /\ decs = dbefore
            /\ dsaved = <<>>
            /\ dnotified = 0
            /\ ~protSaved
    /\ (UpdateDone /\ dmins >= CooldownMinutes /\ DateInRange /\ dresult = "returned")
            => dnotified = 1

\* ------------------------------------------------------------------------
\* C25
\* ------------------------------------------------------------------------

\* Group.update_from_page is over
GroupUpdateDone == skind = "group" /\ spc = "done"

\* C25: Group.update_from_page raises for a page with content whose path has
\* no valid group name; otherwise it ends with name the valid path segment
\* nearest the leaf and with parent_group the next valid segment towards the
\* root, or with no parent_group when the path has only one valid segment.
C25_NameAndParentFromPath ==
    GroupUpdateDone =>
        /\ (spage.lines # <<>> /\ spage.names = <<>>) => sresult = "raised"
        /\ sresult = "saved" =>
              /\ ent.name = spage.names[1]
              /\ ent.parent_group = (IF Len(spage.names) > 1 THEN spage.names[2] ELSE "")

\* ------------------------------------------------------------------------
\* C27
\* ------------------------------------------------------------------------

\* the entries of the short-name lines of a page, in the order of the page
RECURSIVE ShortNameEntries(_)
ShortNameEntries(lines) ==
    IF lines = <<>> THEN <<>>
    ELSE (IF Head(lines).fw = ShortNameKeyword THEN Head(lines).names ELSE <<>>)
             \o ShortNameEntries(Tail(lines))

\* C27: after Group.update_from_page short_names holds exactly the entries of
\* the short-name lines of the page, the whole list in ascending order, and
\* the step over a short-name line leaves the active role as it was.
C27_ShortNamesSorted ==
    /\ []((GroupUpdateDone /\ sresult = "saved") =>
              ent.short_names = Sorted(ShortNameEntries(spage.lines)))
    /\ [][(/\ skind = "group"
           /\ spc = "scan"
           /\ si <= Len(spage.lines)
           /\ spage.lines[si].fw = ShortNameKeyword) => sattr' = sattr]_vars

\* ------------------------------------------------------------------------
\* C26
\* ------------------------------------------------------------------------

\* the groups of the list get_by_name searches whose name is the argument,
\* and those that have the argument among their short names, ignoring case
NameMatches(arg) ==
    {g \in SeqRange(lcached.groups) : Lower(g.name) = Lower(arg)}

ShortNameMatches(arg) ==
    {g \in SeqRange(lcached.groups) :
        \E i \in 1..Len(g.short_names) : Lower(g.short_names[i]) = Lower(arg)}

\* C26: get_by_name returns a group whose name is the argument ignoring
\* case when the list of groups has one, also when another group has the
\* argument as a short name; without such a group it returns a group that has
\* the argument among its short names ignoring case; without one it raises.
C26_NameBeforeShortName ==
    lcall.op = "get_by_name" =>
        IF NameMatches(lcall.arg) # {}
        THEN ~lcall.raised /\ lcall.ret[1] \in NameMatches(lcall.arg)
        ELSE IF ShortNameMatches(lcall.arg) # {}
        THEN ~lcall.raised /\ lcall.ret[1] \in ShortNameMatches(lcall.arg)
        ELSE lcall.raised

\* a lookup returned the group of that name although the group listed before
\* it has the argument as a short name, and the name differs in case
C26_Witness ==
    /\ lcall.op = "get_by_name"
    /\ ~lcall.raised
    /\ Len(lcached.groups) = 2
    /\ lcached.groups[1] \in ShortNameMatches(lcall.arg) \ NameMatches(lcall.arg)
    /\ lcall.ret[1] = lcached.groups[2]
    /\ lcall.ret[1].name # lcall.arg

\* the last call of save ended with a store error of one of its writes: the
\* first write (no fetch before it) or the write after the fetch
WriteFailed == outcome = "error" /\ nWrites = nFetches + 1

\* C30 as stated: after a write of save failed with an error other than a
\* revision conflict, save is over and the entity's revision token is the one
\* it had before the call.
C30_RevAsBeforeTheCall ==
    WriteFailed => pc = "idle" /\ inst[cur].rev = docBody

\* C30, amended: a write of save that fails with an error other than a
\* revision conflict ends the call at once without another store call and
\* leaves the store and the cache as they were before the call; the entity's
\* revision token is the one before the call when the first write failed, and
\* the fetched one when the write after a conflict failed.
C30_WriteErrorSurfaces ==
    /\ [](WriteFailed =>
            /\ pc = "idle"
            /\ inst[cur].rev = IF nFetches = 0 THEN docBody ELSE fetched)
    /\ [][pc # "idle" /\ outcome' = "error" =>
            /\ pc' = "idle"
            /\ store' = store
            /\ nWrites' + nFetches' = nWrites + nFetches + 1]_vars
    /\ [][pc # "idle" /\ outcome' # "ok" => cache' = cache]_vars

\* the write after a conflict failed with a store error, and the entity keeps
\* the fetched revision token, which is not the one it had before the call
C30_Witness ==
    /\ WriteFailed
    /\ nWrites = 2
    /\ conflict1
    /\ inst[cur].rev = fetched
    /\ fetched # docBody

\* the ids of the entries of cache c
IdsOf(c, o) == {o[h].id : h \in SeqRange(c)}

\* the place of an id in the order of use
UsePos(u, id) == CHOOSE i \in 1..Len(u) : u[i] = id

\* the ids an insertion by save or get pushed out of the cache
Evicted == IdsOf(kcache, kobj) \ IdsOf(kcache', kobj')

\* C31: eviction is least-recently-used.  The entries of the cache stand in
\* the order of their last use, where a lookup by get that finds the entry and
\* an insertion by save or get are uses; an insertion that makes the cache
\* exceed its maximum removes entries that were used longer ago than every
\* entry that stays, and never an entry used more recently than one that stays.
C31_EvictionLeastRecentlyUsed ==
    /\ [](kuse = [i \in 1..Len(kcache) |-> kobj[kcache[i]].id])
    /\ [][kcall'.op \in {"save", "get"} =>
            \A e \in Evicted :
                /\ kcall'.ok /\ kcall'.popped > 0
                /\ Len(kcache') = kmax
                /\ \A t \in IdsOf(kcache', kobj') \ {kcall'.arg} :
                      UsePos(kuse, e) < UsePos(kuse, t)]_vars

\* a get that read the store pushed one entry out and another entry, used
\* before the call, is still cached
C31_Witness ==
    /\ kcall.op = "get"
    /\ kcall.ok
    /\ kcall.reads = 1
    /\ kcall.popped = 1
    /\ Len(kcache) = 2
    /\ kmax = 2

\* the object h is an entity without a revision token (freshly constructed,
\* or read from a document whose body carries none), its class has a
\* document in the store, and save runs on it with the store answering
SavedWithoutToken(h) ==
    /\ kobj[h] # Dead
    /\ kobj[h].rev = 0
    /\ kstore[BuildId(kobj[h].cls)].present
    /\ save(h, 0)

\* C32: the store holds at most one Group and one Protocol document of the
\* page, under the id build_id gives; a save of a Group or Protocol without a
\* revision token for a page that already has the document succeeds, gives
\* that document its next revision and the object's body, and adds or removes
\* no document.
C32_OneDocumentPerPage ==
    /\ [](\A cls \in Classes :
            /\ {id \in DOMAIN kstore : ClassOfDoc(id) = cls} = {BuildId(cls)}
            /\ \A h \in CacheHandles :
                  kobj[h].cls = cls => kobj[h].id \in {NoId, BuildId(cls)})
    /\ [][\A h \in CacheHandles :
            SavedWithoutToken(h) =>
                /\ kcall'.ok
                /\ kcall'.reads = 1
                /\ kobj'[h].id = BuildId(kobj[h].cls)
                /\ kstore' = [kstore EXCEPT ![BuildId(kobj[h].cls)] =
                                [present |-> TRUE, rev |-> @.rev + 1, bodyRev |-> 0]]]_vars

\* a freshly constructed entity was saved over the stored document of its
\* page: one Conflict, one db.get, and the document has its second revision
\* with the body of an object without a token
C32_Witness ==
    /\ kcall.op = "save"
    /\ kcall.ok
    /\ kcall.reads = 1
    /\ kstore[kcall.arg].present
    /\ kstore[kcall.arg].rev >= 2
    /\ kstore[kcall.arg].bodyRev = 0
    /\ kobj[kcall.obj].rev = kstore[kcall.arg].rev

\* C33: every get of LazyBotConfig attempts a reload, not only the first one:
\* a get of an instance with at least one retry that has returned made at
\* least one load_config call, so that it returns the configuration the page
\* holds when the page can be read.
C33_EveryAccessReloads ==
    (ccall.op = "get" /\ ccall.done /\ cretries >= 1) => ccall.attempts >= 1

\* C34: reload makes at most `retries` load attempts and stops at the first
\* success, whose configuration it caches and returns; when all attempts
\* fail it returns the configuration cached before if there is one and else
\* raises the error of the last attempt; while attempts fail and after a
\* failed reload the cached configuration is the one from before the call.
C34_ReloadRetriesAndFallsBack ==
    ccall.op \in {"get", "reload"} /\ (ccall.op = "get" => ccall.before = NoConfig) =>
        /\ ccall.attempts <= (IF cretries < 0 THEN 0 ELSE cretries)
        /\ ~ccall.done => ccached = ccall.before /\ clast = ccall.attempts
        /\ (ccall.done /\ clast < ccall.attempts) =>
              /\ ~ccall.raised
              /\ clast = ccall.attempts - 1
              /\ ccall.ret # NoConfig
              /\ ccached = ccall.ret
        /\ (ccall.done /\ clast = ccall.attempts) =>
              /\ ccall.attempts = cretries
              /\ ccached = ccall.before
              /\ IF ccall.before # NoConfig
                 THEN ~ccall.raised /\ ccall.ret = ccall.before
                 ELSE ccall.raised /\ ccall.err = clast

\* a reload whose three attempts failed returned the configuration cached
\* before, which is no longer the one the page holds
C34_Witness ==
    /\ ccall.op = "reload"
    /\ ccall.done
    /\ ccall.attempts = RetriesDefault
    /\ clast = RetriesDefault
    /\ ccall.ret = ccached
    /\ ccached # NoConfig
    /\ ccached # cversion

\* C35: every entity the cache holds is present in the document store, so
\* get never returns from the cache an entity this process has deleted,
\* CollectivePage.delete included.
C35_CacheCoherent ==
    \A h \in SeqRange(kcache) : kstore[kobj[h].id].present

\* C36: get_by_name follows the store: when the store has a Group of the
\* name asked for (ignoring case), the call returns a group of that name,
\* whether the group was saved before or after the first call of the process;
\* and the group a call returns is a Group document as the store holds it, not
\* one that was renamed since.
C36_LookupFollowsStore ==
    lcall.op = "get_by_name" =>
        /\ (\E i \in 1..Len(ldocs) : Lower(ldocs[i].name) = Lower(lcall.arg)) =>
              ~lcall.raised /\ Lower(lcall.ret[1].name) = Lower(lcall.arg)
        /\ ~lcall.raised => lcall.ret[1] \in SeqRange(ldocs)

\* C37: when extract_decisions has saved and returned k decisions of the
\* page, the store holds exactly k Decision documents of that page, one per
\* success block: no two of the returned decisions have the same id.
C37_OneDocumentPerBlock ==
    (ExtractDone /\ dresult = "returned" /\ dsaved # <<>>) =>
        /\ \A i, j \in 1..Len(dsaved) : i # j => dsaved[i].key # dsaved[j].key
        /\ Cardinality(StoredFor(ProtocolPage)) = Len(dsaved)

\* C38: with one thread in get and another in delete, whenever no call is
\* running and a document is gone from the store, the cache has no entry of
\* its id.
C38_NoEntryAfterDelete ==
    (tgpc = "idle" /\ tdpc = "idle") => tcache \subseteq tstore

\* C39: after CollectivePage.delete of a page has returned, no entry of a
\* vector collection refers to that page: the entries of its Decisions in the
\* decisions collection and of its Protocol in the protocols collection are
\* gone, and so are its chunks in the unified collection when their deletion
\* did not fail.
C39_NoVectorEntryAfterDelete ==
    vcall.op = "delete" =>
        /\ \A e \in vdec : e.page # vcall.page
        /\ vcall.page \notin vpro

\* C40: across runs of remind_card_due_dates a card is reminded at most once
\* in any period of remind_after_days days: two reminders sent for one card
\* lie at least remind_after_days days apart, also when a later send of a run
\* failed.
C40_RemindedOncePerPeriod ==
    \A a, b \in rsent :
        (a.card = b.card /\ a.day < b.day) => b.day - a.day >= RemindAfterDays

====
